---------------------------- MODULE Spec2Model ----------------------------
(***************************************************************************)
(* A model of rula, a terminal application launcher (src/src/*.rs).        *)
(*                                                                         *)
(* Strings are sequences of one-character strings, so that splitting,      *)
(* basenames, prefixes, case folding and byte-wise comparison are          *)
(* computed as the code computes them.  The preference store (db.rs) is a  *)
(* function from the names that have a row to the row.  The discovery      *)
(* cache, the desktop-entry directories and PATH are environment state.    *)
(*                                                                         *)
(* Specifications:                                                         *)
(*   SpecScan   source enumeration, cache and enrichment (system.rs)       *)
(*   SpecRank   the App ranking pipeline on long candidate lists           *)
(*   SpecPar    the App ranking pipeline with its parallel workers         *)
(*   SpecStore  the preference store's upserts (db.rs)                     *)
(*   SpecStoreCalls  the store under every call the program makes          *)
(*   SpecFiles  the calls of FileSearcher::search, step by step            *)
(*   SpecShown  update_search on lists around the result cap               *)
(*   Spec       the interactive session (app.rs, main.rs)                  *)
(***************************************************************************)
EXTENDS Integers, Sequences, FiniteSets, TLC

VARIABLES
    \* ---- environment ----
    now,            \* the clock, seconds since the epoch (u64)
    db,             \* app_prefs: [names with a row -> row]
    cache,          \* apps.json: [kind, items], see CacheMissing, CacheArray
    desktop,        \* the desktop-entry directories, in scan order
    path,           \* PATH: [set, dirs], the variable may be unset
    \* ---- scan_apps / rebuild_app_cache (SpecScan) ----
    scanned,        \* the list scan_apps or rebuild_app_cache last produced
    scanKind,       \* which path produced it
    queries,        \* the queries that call issued to the store, in order
    \* ---- fuzzy_search_apps (SpecRank, SpecPar) ----
    rankApps,       \* the app list handed to fuzzy_search_apps
    rankQuery,      \* the query handed to it
    rankResult,     \* its return value
    rankDone,       \* whether it has returned
    parScored,      \* worker results: [index -> score or NoMatch], partial
    parOrder,       \* the order in which the workers finished
    \* ---- the store's operations (SpecStore) ----
    lastOp,         \* the last store call: its name, argument, outcome and the row before
    \* ---- App (app.rs) ----
    input, input_mode, cursor_pos, mode, selected_index, show_dormant,
    all_apps, filtered_apps, filtered_files,
    should_quit, should_launch, launch_command,
    \* ---- main (main.rs) ----
    pc,             \* position of the control loop
    spawned,        \* the processes spawn_detached was called for
    \* ---- FileSearcher::search (SpecFiles) ----
    tree,           \* the walk of the home directory, in walk order
    walk            \* a call of search: its arguments, position and locals

envVars   == <<now, db, cache, desktop, path>>
scanVars  == <<scanned, scanKind, queries>>
rankVars  == <<rankApps, rankQuery, rankResult, rankDone, parScored, parOrder>>
appVars   == <<input, input_mode, cursor_pos, mode, selected_index, show_dormant,
               all_apps, filtered_apps, filtered_files,
               should_quit, should_launch, launch_command>>
fileVars  == <<tree, walk>>
mainVars  == <<pc, spawned, fileVars>>
vars      == <<envVars, scanVars, rankVars, lastOp, appVars, mainVars>>

--------------------------------------------------------------------------
(* Strings *)

\* The byte a character starts with in UTF-8: what String::cmp compares.
CharCode(c) ==
    CASE c = " " -> 32
      [] c = "%" -> 37
      [] c = "." -> 46
      [] c = "/" -> 47
      [] c = "A" -> 65
      [] c = "B" -> 66
      [] c = "a" -> 97
      [] c = "b" -> 98
      [] c = "c" -> 99
      [] c = "d" -> 100
      [] c = "U+E9" -> 195
      [] OTHER   -> 120

\* char::len_utf8: "U+E9" stands for a character encoded in two bytes.
Utf8Len(c) == IF c = "U+E9" THEN 2 ELSE 1

RECURSIVE ByteLen(_)
\* String::len: the length in bytes.
ByteLen(s) == IF s = <<>> THEN 0 ELSE Utf8Len(Head(s)) + ByteLen(Tail(s))

\* str::is_char_boundary(b)
IsCharBoundary(s, b) == \E k \in 0..Len(s) : ByteLen(SubSeq(s, 1, k)) = b

\* The number of characters before byte offset b, a character boundary.
CharsBefore(s, b) == CHOOSE k \in 0..Len(s) : ByteLen(SubSeq(s, 1, k)) = b

\* String::insert(b, c), which panics unless b is a character boundary.
StringInsert(s, b, c) ==
    LET k == CharsBefore(s, b)
    IN  SubSeq(s, 1, k) \o <<c>> \o SubSeq(s, k + 1, Len(s))

\* String::remove(b), which panics unless b is a character boundary below
\* the length.
StringRemove(s, b) ==
    LET k == CharsBefore(s, b)
    IN  SubSeq(s, 1, k) \o SubSeq(s, k + 2, Len(s))

\* char::to_lowercase on the alphabet of the model.
Lower(c) == IF c = "A" THEN "a" ELSE IF c = "B" THEN "b" ELSE c

IsUpper(c) == c \in {"A", "B"}

LowerStr(s) == [i \in 1..Len(s) |-> Lower(s[i])]

RECURSIVE StrLess(_, _)
\* a < b for strings: lexicographic on bytes (Ord for String).
StrLess(a, b) ==
    IF b = <<>> THEN FALSE
    ELSE IF a = <<>> THEN TRUE
    ELSE IF CharCode(Head(a)) # CharCode(Head(b))
         THEN CharCode(Head(a)) < CharCode(Head(b))
    ELSE StrLess(Tail(a), Tail(b))

\* str::contains(char)
ContainsChar(s, c) == \E i \in 1..Len(s) : s[i] = c

\* str::contains(&str)
ContainsStr(s, sub) ==
    \E i \in 0..(Len(s) - Len(sub)) :
        \A j \in 1..Len(sub) : s[i + j] = sub[j]

\* str::starts_with(char)
StartsWith(s, c) == Len(s) > 0 /\ s[1] = c

RECURSIVE SplitOn(_, _, _)
\* The maximal runs of characters other than sep, empty runs dropped;
\* cur is the run being read.
SplitOn(s, sep, cur) ==
    IF s = <<>> THEN (IF cur = <<>> THEN <<>> ELSE <<cur>>)
    ELSE IF Head(s) = sep
         THEN (IF cur = <<>> THEN <<>> ELSE <<cur>>) \o SplitOn(Tail(s), sep, <<>>)
    ELSE SplitOn(Tail(s), sep, Append(cur, Head(s)))

\* str::split_whitespace
split_whitespace(s) == SplitOn(s, " ", <<>>)

RECURSIVE JoinWith(_, _)
\* [&str]::join(sep)
JoinWith(toks, sep) ==
    IF toks = <<>> THEN <<>>
    ELSE IF Len(toks) = 1 THEN toks[1]
    ELSE toks[1] \o <<sep>> \o JoinWith(Tail(toks), sep)

\* Path::file_name: the last component of the path, None when there is no
\* component or the path ends in "..".
file_name(p) ==
    LET comps == SplitOn(p, "/", <<>>)
    IN  IF comps = <<>> THEN <<"None">>
        ELSE IF comps[Len(comps)] = <<".", ".">> THEN <<"None">>
        ELSE <<"Some", comps[Len(comps)]>>

--------------------------------------------------------------------------
(* Sequences *)

\* Iterator::take(n) / Vec::truncate(n)
Take(s, n) == IF Len(s) <= n THEN s ELSE SubSeq(s, 1, n)

Range(s) == {s[i] : i \in 1..Len(s)}

--------------------------------------------------------------------------
(* The preference store: db.rs *)

\* The column defaults of app_prefs, also what get_app_data returns for an
\* absent name.
DefaultRow == [is_tui |-> FALSE, score |-> 0, usage |-> 0, last_used |-> 0]

\* A read by name that finds no row.
get_app_data_finds_none(store, app_name) == DefaultRow

\* Database::get_app_data: the row of app_name, the defaults when there is none.
get_app_data(store, app_name) ==
    IF app_name \in DOMAIN store THEN store[app_name] ELSE DefaultRow

\* Database::get_all_app_data: the whole table as a name-keyed map.
get_all_app_data(store) == store

\* Database::has_entry
has_entry(store, app_name) == app_name \in DOMAIN store

\* Database::is_tui_app
is_tui_app(store, app_name) == get_app_data(store, app_name).is_tui

\* A mutant of increment_usage: the upsert resets the row it finds.
increment_usage_resets(store, app_name, t) ==
    (app_name :> [DefaultRow EXCEPT !.usage = 1, !.last_used = t]) @@ store

\* Database::increment_usage, when the statement succeeds:
\* INSERT (app_name, usage, last_used) VALUES (?1, 1, ?2)
\* ON CONFLICT(app_name) DO UPDATE SET usage = usage + 1, last_used = ?2
increment_usage(store, app_name, t) ==
    IF app_name \in DOMAIN store
    THEN [store EXCEPT ![app_name].usage = @ + 1, ![app_name].last_used = t]
    ELSE (app_name :> [DefaultRow EXCEPT !.usage = 1, !.last_used = t]) @@ store

\* A mutant of set_tui_mode: clearing the flag deletes the row.
set_tui_mode_deletes(store, app_name, is_tui) ==
    IF is_tui
    THEN (app_name :> [get_app_data(store, app_name) EXCEPT !.is_tui = TRUE]) @@ store
    ELSE [n \in DOMAIN store \ {app_name} |-> store[n]]

\* A mutant of set_tui_mode: the upsert replaces the row it finds.
set_tui_mode_replaces(store, app_name, is_tui) ==
    (app_name :> [DefaultRow EXCEPT !.is_tui = is_tui]) @@ store

\* Database::set_tui_mode, when the statement succeeds:
\* INSERT (app_name, is_tui) VALUES (?1, ?2)
\* ON CONFLICT(app_name) DO UPDATE SET is_tui = ?2
set_tui_mode(store, app_name, is_tui) ==
    IF app_name \in DOMAIN store
    THEN [store EXCEPT ![app_name].is_tui = is_tui]
    ELSE (app_name :> [DefaultRow EXCEPT !.is_tui = is_tui]) @@ store

\* A mutant of set_base_score: the upsert replaces the row it finds.
set_base_score_replaces(store, app_name, score) ==
    (app_name :> [DefaultRow EXCEPT !.score = score]) @@ store

\* Database::set_base_score, when the statement succeeds:
\* INSERT (app_name, score) VALUES (?1, ?2)
\* ON CONFLICT(app_name) DO UPDATE SET score = ?2
set_base_score(store, app_name, score) ==
    IF app_name \in DOMAIN store
    THEN [store EXCEPT ![app_name].score = score]
    ELSE (app_name :> [DefaultRow EXCEPT !.score = score]) @@ store

RECURSIVE seed_database(_, _, _)
\* seed_database (system.rs lines 415-425) over the lines of the package
\* listing: a line of two or more words seeds the file name of its second
\* word with 50; oks[i] tells whether the upsert of line i succeeds, a
\* failure being ignored.
seed_database(store, lines, oks) ==
    IF lines = <<>> THEN store
    ELSE LET parts == split_whitespace(Head(lines))
             name  == IF Len(parts) >= 2 THEN file_name(parts[2]) ELSE <<"None">>
         IN  seed_database(IF name[1] = "Some" /\ Head(oks)
                           THEN set_base_score(store, name[2], 50) ELSE store,
                           Tail(lines), Tail(oks))

--------------------------------------------------------------------------
(* The score compositor: system.rs, lines 60-64, 141-148, 233-243 *)

thirty_days == 30 * 24 * 60 * 60

\* base_score + (usage * 10)
TotalScore(row) == row.score + (row.usage * 10)

\* u64::saturating_sub
saturating_sub(a, b) == IF a >= b THEN a - b ELSE 0

\* A mutant of IsDormant: the boundary is not strict.
IsDormantInclusive(last_used, t) ==
    last_used > 0 /\ saturating_sub(t, last_used) >= thirty_days

\* last_used > 0 && (now.saturating_sub(last_used) > thirty_days)
IsDormant(last_used, t) ==
    last_used > 0 /\ saturating_sub(t, last_used) > thirty_days

\* The comparator of apps.sort_by: total_score descending, then name ascending.
AppBefore(a, b) ==
    \/ a.total_score > b.total_score
    \/ a.total_score = b.total_score /\ StrLess(a.name, b.name)

RECURSIVE InsertApp(_, _)
\* x placed after every element of the sorted list that does not come after it.
InsertApp(x, s) ==
    IF s = <<>> THEN <<x>>
    ELSE IF AppBefore(x, Head(s)) THEN <<x>> \o s
    ELSE <<Head(s)>> \o InsertApp(x, Tail(s))

RECURSIVE SortApps(_)
\* apps.sort_by(...): a stable sort by AppBefore.
SortApps(apps) ==
    IF apps = <<>> THEN <<>>
    ELSE InsertApp(apps[Len(apps)], SortApps(SubSeq(apps, 1, Len(apps) - 1)))

--------------------------------------------------------------------------
(* The source enumerator: scan_apps_fresh, system.rs lines 55-229 *)

\* A desktop-entry file is [ext, parse_ok, section, NoDisplay, Name, Exec]:
\* whether its extension is "desktop", whether parse_entry returns Ok, whether
\* it holds a "Desktop Entry" section, and the value lists of three attributes.
\* A desktop directory is [exists, files], files in the order WalkDir yields them.
\* A PATH directory is [str, is_dir, readable, entries], an entry
\* [name, is_file, meta_ok, mode].

Unknown == <<"U", "n", "k", "n", "o", "w", "n">>

\* Vec::first().map(..).unwrap_or_else(|| dflt)
FirstOr(values, dflt) == IF values = <<>> THEN dflt ELSE values[1]

\* section.attr("NoDisplay").first().map(|s| s == "true").unwrap_or(false)
no_display(f) == FirstOr(f.NoDisplay, "false") = "true"

\* exec_raw.split_whitespace().next().unwrap_or("")
binary_name(exec_raw) == FirstOr(split_whitespace(exec_raw), <<>>)

\* Path::new(&binary_name).file_name().map(..).unwrap_or(binary_name)
simple_bin(exec_raw) ==
    LET b == binary_name(exec_raw)
        f == file_name(b)
    IN  IF f[1] = "Some" THEN f[2] ELSE b

\* The entity pushed for name with the batch-loaded store data.
NewEntry(name, exec, is_cli_only, db_data, t) ==
    LET row == IF name \in DOMAIN db_data THEN db_data[name] ELSE DefaultRow
    IN  [name        |-> name,
         exec        |-> exec,
         is_cli_only |-> is_cli_only,
         total_score |-> TotalScore(row),
         is_dormant  |-> IsDormant(row.last_used, t)]

\* Whether the loop body reaches the `if !exec_raw.is_empty() && name != "Unknown"`
\* block for file f (lines 92-125).
EntryAccepted(f) ==
    /\ f.ext /\ f.parse_ok /\ f.section
    /\ ~no_display(f)
    /\ FirstOr(f.Exec, <<>>) # <<>>
    /\ FirstOr(f.Name, Unknown) # Unknown

\* A mutant of ScanDesktopFile: on a repeated name the later entry replaces
\* the earlier one.
ScanDesktopFileLastWins(f, st, db_data, t) ==
    IF ~EntryAccepted(f) THEN st
    ELSE LET name     == FirstOr(f.Name, Unknown)
             exec_raw == FirstOr(f.Exec, <<>>)
             others   == SelectSeq(st.apps, LAMBDA e : e.name # name)
         IN  [apps        |-> Append(others, NewEntry(name, exec_raw, FALSE, db_data, t)),
              seen_names  |-> st.seen_names \cup {name},
              known_execs |-> st.known_execs \cup {simple_bin(exec_raw)}]

\* One iteration of the desktop loop (lines 92-160) on the scan state
\* st = [apps, seen_names, known_execs].
ScanDesktopFile(f, st, db_data, t) ==
    IF ~EntryAccepted(f) THEN st
    ELSE LET name     == FirstOr(f.Name, Unknown)
             exec_raw == FirstOr(f.Exec, <<>>)
             known    == st.known_execs \cup {simple_bin(exec_raw)}
         IN  IF name \in st.seen_names
             THEN [st EXCEPT !.known_execs = known]
             ELSE [apps        |-> Append(st.apps, NewEntry(name, exec_raw, FALSE, db_data, t)),
                   seen_names  |-> st.seen_names \cup {name},
                   known_execs |-> known]

RECURSIVE ScanDesktopFilesAborting(_, _, _, _)
\* A desktop loop that gives up the directory at the first file the parser
\* rejects.
ScanDesktopFilesAborting(files, st, db_data, t) ==
    IF files = <<>> \/ ~Head(files).parse_ok THEN st
    ELSE ScanDesktopFilesAborting(Tail(files),
                                  ScanDesktopFile(Head(files), st, db_data, t),
                                  db_data, t)

RECURSIVE ScanDesktopFiles(_, _, _, _)
ScanDesktopFiles(files, st, db_data, t) ==
    IF files = <<>> THEN st
    ELSE ScanDesktopFiles(Tail(files), ScanDesktopFile(Head(files), st, db_data, t),
                          db_data, t)

RECURSIVE ScanDesktopDirs(_, _, _, _)
\* for dir in search_dirs (lines 82-162): a directory that does not exist is
\* skipped.
ScanDesktopDirs(dirs, st, db_data, t) ==
    IF dirs = <<>> THEN st
    ELSE ScanDesktopDirs(Tail(dirs),
                         IF Head(dirs).exists
                         THEN ScanDesktopFiles(Head(dirs).files, st, db_data, t)
                         ELSE st,
                         db_data, t)

\* path_str.contains("/sbin") || .contains("/games") || .contains("/lib")
ExcludedPathDir(path_str) ==
    \/ ContainsStr(path_str, <<"/", "s", "b", "i", "n">>)
    \/ ContainsStr(path_str, <<"/", "g", "a", "m", "e", "s">>)
    \/ ContainsStr(path_str, <<"/", "l", "i", "b">>)

\* metadata.permissions().mode() & 0o111 != 0
HasExecBit(m) ==
    \/ m % 2 = 1
    \/ (m \div 8) % 2 = 1
    \/ (m \div 64) % 2 = 1

\* Whether the PATH loop reaches the known_execs test for entry e (lines 181-189).
BinaryAccepted(e) ==
    /\ e.is_file
    /\ ~(ContainsChar(e.name, ".") \/ StartsWith(e.name, "."))
    /\ e.meta_ok
    /\ HasExecBit(e.mode)

\* A mutant of ScanPathEntry: the known-executable test is missing.
ScanPathEntryNoKnownExecs(e, st, db_data, t) ==
    IF ~BinaryAccepted(e) \/ e.name \in st.seen_names THEN st
    ELSE [st EXCEPT !.apps = Append(@, NewEntry(e.name, e.name, TRUE, db_data, t)),
                    !.seen_names = @ \cup {e.name}]

\* One iteration of the PATH entry loop (lines 179-217).
ScanPathEntry(e, st, db_data, t) ==
    IF ~BinaryAccepted(e) THEN st
    ELSE IF e.name \in st.known_execs THEN st
    ELSE IF e.name \in st.seen_names THEN st
    ELSE [st EXCEPT !.apps = Append(@, NewEntry(e.name, e.name, TRUE, db_data, t)),
                    !.seen_names = @ \cup {e.name}]

RECURSIVE ScanPathEntries(_, _, _, _)
ScanPathEntries(entries, st, db_data, t) ==
    IF entries = <<>> THEN st
    ELSE ScanPathEntries(Tail(entries), ScanPathEntry(Head(entries), st, db_data, t),
                         db_data, t)

\* Whether the entries of PATH directory d are read (lines 167-178).
PathDirScanned(d) == d.is_dir /\ ~ExcludedPathDir(d.str) /\ d.readable

RECURSIVE ScanPathDirs(_, _, _, _)
\* for path_str in path_var.split(':') (lines 166-219)
ScanPathDirs(dirs, st, db_data, t) ==
    IF dirs = <<>> THEN st
    ELSE ScanPathDirs(Tail(dirs),
                      IF PathDirScanned(Head(dirs))
                      THEN ScanPathEntries(Head(dirs).entries, st, db_data, t)
                      ELSE st,
                      db_data, t)

\* env::var("PATH"): Err when the variable is not set, else its directories.
PathUnset == [set |-> FALSE, dirs |-> <<>>]
PathOf(dirs) == [set |-> TRUE, dirs |-> dirs]

\* scan_apps_fresh: the desktop directories, then PATH, then the sort.
scan_apps_fresh(store, dsk, pth, t) ==
    LET db_data == get_all_app_data(store)
        st0 == [apps |-> <<>>, seen_names |-> {}, known_execs |-> {}]
        st1 == ScanDesktopDirs(dsk, st0, db_data, t)
        st2 == IF pth.set THEN ScanPathDirs(pth.dirs, st1, db_data, t) ELSE st1
    IN  SortApps(st2.apps)

\* The queries scan_apps_fresh issues: the one get_all_app_data of line 67.
scan_apps_fresh_queries == <<"get_all_app_data">>

\* The queries enrich_apps_with_db_data issues: the get_app_data of line 240,
\* once per entity.
enrich_queries(apps) == [i \in 1..Len(apps) |-> "get_app_data"]

\* A mutant of enrich_apps_with_db_data: the cached entities are returned as
\* loaded, without the store's data.
enrich_not_recomputed(apps, store, t) == SortApps(apps)

\* enrich_apps_with_db_data (lines 232-252): one point query per entity, then
\* the sort.
enrich_apps_with_db_data(apps, store, t) ==
    SortApps([i \in 1..Len(apps) |->
                 LET row == get_app_data(store, apps[i].name)
                 IN  [apps[i] EXCEPT !.total_score = TotalScore(row),
                                     !.is_dormant  = IsDormant(row.last_used, t)]])

--------------------------------------------------------------------------
(* The discovery cache: system.rs lines 258-304 *)

CacheMissing   == [kind |-> "missing", items |-> <<>>]    \* no apps.json
CacheMalformed == [kind |-> "malformed", items |-> <<>>]  \* content serde_json cannot parse
CacheArray(items) == [kind |-> "array", items |-> items]  \* a JSON array of objects

\* CachedApp: the three serialized fields.
CachedApp(a) == [name |-> a.name, exec |-> a.exec, is_cli_only |-> a.is_cli_only]

RECURSIVE json_escape(_)
\* The characters serde_json writes between the quotes of a string: a quote
\* and a backslash are preceded by a backslash.
json_escape(s) ==
    IF s = <<>> THEN <<>>
    ELSE (IF Head(s) \in {"\"", "\\"} THEN <<"\\", Head(s)>> ELSE <<Head(s)>>)
         \o json_escape(Tail(s))

RECURSIVE json_valid(_)
\* Whether serde_json accepts the characters as the inside of a string: no
\* bare quote, and a backslash followed by a quote or a backslash.
json_valid(e) ==
    IF e = <<>> THEN TRUE
    ELSE IF Head(e) = "\"" THEN FALSE
    ELSE IF Head(e) = "\\"
         THEN Len(e) >= 2 /\ e[2] \in {"\"", "\\"} /\ json_valid(Tail(Tail(e)))
    ELSE json_valid(Tail(e))

RECURSIVE json_unescape(_)
\* The string serde_json reads from valid characters.
json_unescape(e) ==
    IF e = <<>> THEN <<>>
    ELSE IF Head(e) = "\\" THEN <<e[2]>> \o json_unescape(Tail(Tail(e)))
    ELSE <<Head(e)>> \o json_unescape(Tail(e))

\* The JSON object of a CachedApp: its strings as written in the file.
JsonObject(c) ==
    [name |-> json_escape(c.name), exec |-> json_escape(c.exec),
     is_cli_only |-> c.is_cli_only]

\* The content save_app_cache writes: the array of CachedApp objects.
cache_json(apps) == CacheArray([i \in 1..Len(apps) |-> JsonObject(CachedApp(apps[i]))])

\* Whether serde_json parses the content as Vec<CachedApp>.
CacheParses(c) ==
    /\ c.kind = "array"
    /\ \A i \in 1..Len(c.items) : json_valid(c.items[i].name) /\ json_valid(c.items[i].exec)

\* A mutant of load_app_cache: the strings are taken as written in the file.
load_app_cache_raw(c) ==
    IF ~CacheParses(c) THEN [ok |-> FALSE, apps |-> <<>>]
    ELSE [ok |-> TRUE,
          apps |-> [i \in 1..Len(c.items) |->
                      [name |-> c.items[i].name, exec |-> c.items[i].exec,
                       is_cli_only |-> c.items[i].is_cli_only,
                       total_score |-> 0, is_dormant |-> FALSE]]]

\* load_app_cache: Err for a missing file or unparsable content, else the
\* entities with total_score 0 and is_dormant false.
load_app_cache(c) ==
    IF ~CacheParses(c) THEN [ok |-> FALSE, apps |-> <<>>]
    ELSE [ok |-> TRUE,
          apps |-> [i \in 1..Len(c.items) |->
                      [name |-> json_unescape(c.items[i].name),
                       exec |-> json_unescape(c.items[i].exec),
                       is_cli_only |-> c.items[i].is_cli_only,
                       total_score |-> 0, is_dormant |-> FALSE]]]

\* Whether scan_apps takes the cached list (lines 36-40).
CacheHit(c) == load_app_cache(c).ok /\ load_app_cache(c).apps # <<>>

\* A mutant of scan_apps: a cache miss returns the empty list.
scan_apps_cache_only(store, c, dsk, pth, t) ==
    IF CacheHit(c)
    THEN enrich_apps_with_db_data(load_app_cache(c).apps, store, t)
    ELSE <<>>

\* A mutant of scan_apps: the cache is not consulted.
scan_apps_always_fresh(store, c, dsk, pth, t) == scan_apps_fresh(store, dsk, pth, t)

\* The value scan_apps returns (lines 34-46).
scan_apps(store, c, dsk, pth, t) ==
    IF CacheHit(c)
    THEN enrich_apps_with_db_data(load_app_cache(c).apps, store, t)
    ELSE scan_apps_fresh(store, dsk, pth, t)

\* The queries scan_apps issues (lines 34-46).
scan_apps_queries(c) ==
    IF CacheHit(c) THEN enrich_queries(load_app_cache(c).apps)
    ELSE scan_apps_fresh_queries

\* A mutant of CacheAfterWrite: the new array is appended to an array the
\* file holds.
CacheAfterWriteAppends(c, apps, write_ok) ==
    IF write_ok
    THEN {IF c.kind = "array" THEN CacheArray(c.items \o cache_json(apps).items)
          ELSE cache_json(apps)}
    ELSE {c, CacheMalformed}

\* The content of apps.json after fs::write: the new array when the write
\* succeeds; when it fails, the old content (the file could not be opened) or
\* a truncated one.
CacheAfterWrite(c, apps, write_ok) ==
    IF write_ok THEN {cache_json(apps)} ELSE {c, CacheMalformed}

--------------------------------------------------------------------------
(* Values the variables of a specification that does not use them keep *)

NoOp       == [op |-> "none"]
NoCommand  == [some |-> FALSE, program |-> <<>>, args |-> <<>>, is_tui |-> FALSE]

IdleScan == scanned = <<>> /\ scanKind = "none" /\ queries = <<>>

IdleRank ==
    /\ rankApps = <<>> /\ rankQuery = <<>> /\ rankResult = <<>> /\ rankDone = FALSE
    /\ parScored = <<>> /\ parOrder = <<>>

IdleApp ==
    /\ input = <<>> /\ input_mode = "Insert" /\ cursor_pos = 0
    /\ mode = "Apps" /\ selected_index = 0 /\ show_dormant = FALSE
    /\ all_apps = <<>> /\ filtered_apps = <<>> /\ filtered_files = <<>>
    /\ should_quit = FALSE /\ should_launch = FALSE /\ launch_command = NoCommand

\* No call of FileSearcher::search.
NoWalk == [phase |-> "none", query |-> <<>>, limit |-> 0, built |-> FALSE,
           pos |-> 0, examined |-> 0, candidates |-> <<>>, result |-> <<>>]

IdleMain == pc = "none" /\ spawned = <<>> /\ tree = <<>> /\ walk = NoWalk

--------------------------------------------------------------------------
(* SpecScan: enumeration, cache and enrichment on bounded environments *)

MaxSources == 3      \* desktop files plus PATH binaries of an environment
NowBase == 2600000   \* the clock of the scan environments

NameA == <<"a">>
NameB == <<"b">>
NameC == <<"c">>

DesktopFile(name_attr, exec_attr, nodisplay_attr) ==
    [ext |-> TRUE, parse_ok |-> TRUE, section |-> TRUE,
     NoDisplay |-> nodisplay_attr, Name |-> name_attr, Exec |-> exec_attr]

\* The desktop-entry files of the scan environments; the list of an attribute
\* holds the value of its line, the empty string for a line "Name=".
DesktopFileKinds ==
    { DesktopFile(<<NameA>>, <<NameB>>, <<>>),
      DesktopFile(<<NameA>>, << <<"/", "d", "/", "c", " ", "%", "a">> >>, <<"false">>),
      DesktopFile(<<NameB>>, <<NameA>>, <<>>),
      DesktopFile(<<NameC>>, <<NameC>>, <<"true">>),
      DesktopFile(<<Unknown>>, <<NameC>>, <<>>) }

\* Files with a missing or an empty attribute, a missing section, a content
\* the parser rejects, and another extension.
OddFileKinds ==
    { DesktopFile(<<>>, <<NameB>>, <<>>),
      DesktopFile(<< <<>> >>, <<NameB>>, <<>>),
      DesktopFile(<<NameC>>, <<>>, <<>>),
      DesktopFile(<<NameC>>, << <<>> >>, <<>>),
      [DesktopFile(<<NameC>>, <<NameC>>, <<>>) EXCEPT !.section = FALSE],
      [DesktopFile(<<NameC>>, <<NameC>>, <<>>) EXCEPT !.parse_ok = FALSE],
      [DesktopFile(<<NameC>>, <<NameC>>, <<>>) EXCEPT !.ext = FALSE] }

Binary(name, m) == [name |-> name, is_file |-> TRUE, meta_ok |-> TRUE, mode |-> m]

\* The PATH entries of the scan environments: 493 = 0o755, 420 = 0o644.
BinaryKinds ==
    { Binary(NameA, 493), Binary(NameB, 493), Binary(NameC, 493),
      Binary(<<"a", ".", "b">>, 493), Binary(NameC, 420) }

\* The sequences over S of length n.
SeqsOfLen(S, n) == [1..n -> S]

DistinctNames(entries) ==
    \A i, j \in 1..Len(entries) : i # j => entries[i].name # entries[j].name

\* Four desktop directories as in scan_apps_fresh: the first k files are in
\* /usr/share/applications, the rest in the user directory; the second
\* directory does not exist and the third is empty.
DesktopLayout(files, k) ==
    << [exists |-> TRUE,  files |-> SubSeq(files, 1, k)],
       [exists |-> FALSE, files |-> <<>>],
       [exists |-> TRUE,  files |-> <<>>],
       [exists |-> TRUE,  files |-> SubSeq(files, k + 1, Len(files))] >>

\* A PATH of an excluded directory holding an executable, a missing directory
\* and a scanned one.
PathLayout(entries) ==
    << [str |-> <<"/", "s", "b", "i", "n">>, is_dir |-> TRUE, readable |-> TRUE,
        entries |-> <<Binary(NameC, 493)>>],
       [str |-> <<"/", "x">>, is_dir |-> FALSE, readable |-> FALSE, entries |-> <<>>],
       [str |-> <<"/", "b">>, is_dir |-> TRUE, readable |-> TRUE, entries |-> entries] >>

\* A PATH of a directory that cannot be read, a missing one, and a scanned
\* one with an entry whose metadata cannot be read before an executable.
OddPathLayout ==
    << [str |-> <<"/", "u">>, is_dir |-> TRUE, readable |-> FALSE,
        entries |-> <<Binary(NameC, 493)>>],
       [str |-> <<"/", "x">>, is_dir |-> FALSE, readable |-> FALSE, entries |-> <<>>],
       [str |-> <<"/", "b">>, is_dir |-> TRUE, readable |-> TRUE,
        entries |-> << [Binary(NameA, 493) EXCEPT !.meta_ok = FALSE],
                       Binary(NameB, 493) >>] >>

ScanStore == (NameB :> [is_tui |-> FALSE, score |-> 0, usage |-> 2, last_used |-> 0])

\* Environments that vary the sources.
InitScanSources ==
    /\ now = NowBase
    /\ db = ScanStore
    /\ cache = CacheMissing
    /\ \E n \in 0..MaxSources : \E m \in 0..(MaxSources - n) :
       \E files \in SeqsOfLen(DesktopFileKinds, n) : \E k \in 0..n :
       \E entries \in SeqsOfLen(BinaryKinds, m) :
          /\ DistinctNames(entries)
          /\ desktop = DesktopLayout(files, k)
          /\ path = IF n = 0 /\ m = 0 THEN PathUnset ELSE PathOf(PathLayout(entries))

\* The rows of the store environments: none, or a row with a base score, a
\* usage count and a last_used on either side of the dormancy boundary.
RowKinds(t) ==
    [is_tui : {FALSE}, score : {0, 50}, usage : {0, 2},
     last_used : {0, t - thirty_days - 1, t - thirty_days, t + 5}]

StoreKinds(t) ==
    {<<>>}
    \cup {(NameA :> r) : r \in RowKinds(t)}
    \cup {(NameA :> r) @@ (NameB :> q) : r \in RowKinds(t), q \in RowKinds(t)}

Triple(name, exec, is_cli_only) ==
    [name |-> name, exec |-> exec, is_cli_only |-> is_cli_only]

\* A command with a quoted field code: b "%a"
ExecQuoted == <<"b", " ", "\"", "%", "a", "\"">>

\* Cache contents of the store environments: no file, unparsable content, an
\* empty array, the identities of the sources, and a stale array.
CacheKinds ==
    { CacheMissing, CacheMalformed, CacheArray(<<>>),
      CacheArray(<<JsonObject(Triple(NameA, ExecQuoted, FALSE)),
                   JsonObject(Triple(NameC, NameC, TRUE))>>),
      CacheArray(<<JsonObject(Triple(NameB, NameB, TRUE)),
                   JsonObject(Triple(NameA, NameA, FALSE))>>) }

\* Environments that vary the store, the clock's distance to last_used and
\* the cache.
InitScanStore ==
    /\ now = NowBase
    /\ db \in StoreKinds(NowBase)
    /\ cache \in CacheKinds
    /\ desktop = DesktopLayout(<<DesktopFile(<<NameA>>, <<ExecQuoted>>, <<>>)>>, 1)
    /\ path = PathOf(PathLayout(<<Binary(NameC, 493)>>))

\* Environments with an odd file before or after another file, beside a PATH
\* executable.
InitScanOdd ==
    /\ now = NowBase
    /\ db = ScanStore
    /\ cache = CacheMissing
    /\ \E f \in OddFileKinds : \E g \in OddFileKinds \cup DesktopFileKinds :
       \E first \in BOOLEAN : \E k \in 0..2 :
          desktop = DesktopLayout(IF first THEN <<f, g>> ELSE <<g, f>>, k)
    /\ path = PathOf(OddPathLayout)

InitScan ==
    /\ InitScanSources \/ InitScanStore \/ InitScanOdd
    /\ IdleScan /\ IdleRank /\ lastOp = NoOp /\ IdleApp /\ IdleMain

\* A call of scan_apps (lines 34-46): the cached list enriched, or the fresh
\* enumeration followed by save_app_cache, whose failure is ignored.
ScanApps ==
    /\ scanned' = scan_apps(db, cache, desktop, path, now)
    /\ queries' = scan_apps_queries(cache)
    /\ IF CacheHit(cache)
       THEN cache' = cache /\ scanKind' = "hit"
       ELSE /\ scanKind' = "miss"
            /\ \E write_ok \in BOOLEAN :
                 cache' \in CacheAfterWrite(cache, scanned', write_ok)
    /\ UNCHANGED <<now, db, desktop, path, rankVars, lastOp, appVars, mainVars>>

\* A run of `rula --rebuild-cache` (rebuild_app_cache, lines 49-53).
RebuildAppCache ==
    /\ scanned' = scan_apps_fresh(db, desktop, path, now)
    /\ queries' = scan_apps_fresh_queries
    /\ \E write_ok \in BOOLEAN :
         /\ cache' \in CacheAfterWrite(cache, scanned', write_ok)
         /\ scanKind' = IF write_ok THEN "rebuild" ELSE "rebuild_failed"
    /\ UNCHANGED <<now, db, desktop, path, rankVars, lastOp, appVars, mainVars>>

NextScan == ScanApps \/ RebuildAppCache

SpecScan == InitScan /\ [][NextScan]_vars

--------------------------------------------------------------------------
(* Properties of the enumeration and of enrichment, under SpecScan *)

RECURSIVE DesktopFilesOf(_)
\* The files of the existing desktop directories, in scan order.
DesktopFilesOf(dirs) ==
    IF dirs = <<>> THEN <<>>
    ELSE (IF Head(dirs).exists THEN Head(dirs).files ELSE <<>>) \o DesktopFilesOf(Tail(dirs))

RECURSIVE PathEntriesOf(_)
\* The entries of the PATH directories that are read, in PATH order.
PathEntriesOf(dirs) ==
    IF dirs = <<>> THEN <<>>
    ELSE (IF PathDirScanned(Head(dirs)) THEN Head(dirs).entries ELSE <<>>)
         \o PathEntriesOf(Tail(dirs))

\* The displayable desktop entries and the PATH executables of the environment.
DisplayableEntries == SelectSeq(DesktopFilesOf(desktop), EntryAccepted)
PathExecutables ==
    IF path.set THEN SelectSeq(PathEntriesOf(path.dirs), BinaryAccepted) ELSE <<>>

DisplayName(f) == f.Name[1]
LaunchCommand(f) == f.Exec[1]

\* scanned holds the output of a full enumeration.
FreshOutput == scanKind \in {"miss", "rebuild", "rebuild_failed"}

Identity(e) == Triple(e.name, e.exec, e.is_cli_only)

\* The entry and the executable have the same simple identity.
SameIdentity(f, e) ==
    e.name = DisplayName(f) \/ e.name = simple_bin(LaunchCommand(f))

\* The first displayable entry with the display name of f.
FirstWithName(f) ==
    LET ds == DisplayableEntries
        i  == CHOOSE i \in 1..Len(ds) :
                /\ DisplayName(ds[i]) = DisplayName(f)
                /\ \A j \in 1..(i - 1) : DisplayName(ds[j]) # DisplayName(f)
    IN  ds[i]

Yields ==
    [i \in 1..Len(DisplayableEntries) |->
        Triple(DisplayName(DisplayableEntries[i]),
               LaunchCommand(DisplayableEntries[i]), FALSE)]
    \o [j \in 1..Len(PathExecutables) |->
        Triple(PathExecutables[j].name, PathExecutables[j].name, TRUE)]

\* C2: the output of one enumeration holds no name twice, and every entity
\* in it is the one the earliest source yielding its name produced.
C2_UniqueNamesFirstSourceWins ==
    FreshOutput =>
      /\ \A i, j \in 1..Len(scanned) : i # j => scanned[i].name # scanned[j].name
      /\ \A k \in 1..Len(scanned) :
           \E i \in 1..Len(Yields) :
              /\ Yields[i] = Identity(scanned[k])
              /\ \A j \in 1..(i - 1) : Yields[j].name # scanned[k].name

\* An enumeration has run where a system entry, a user entry with another
\* command and a PATH executable all yield one name.
C2_Witness ==
    /\ FreshOutput
    /\ \E i, j, k \in 1..Len(Yields) :
          /\ i < j /\ j < k
          /\ Yields[i].name = Yields[j].name /\ Yields[j].name = Yields[k].name
          /\ Yields[i].exec # Yields[j].exec
          /\ ~Yields[j].is_cli_only /\ Yields[k].is_cli_only
    /\ desktop[1].files # <<>> /\ desktop[4].files # <<>>

\* scanned holds a value returned by scan_apps.
ScanAppsReturned == scanKind \in {"hit", "miss"}

\* The preference record the store holds for name, field by field.
RecordScore(name)    == IF name \in DOMAIN db THEN db[name].score ELSE 0
RecordUsage(name)    == IF name \in DOMAIN db THEN db[name].usage ELSE 0
RecordLastUsed(name) == IF name \in DOMAIN db THEN db[name].last_used ELSE 0

\* C3: every entity scan_apps returns, from the cache or from a fresh
\* enumeration, has total_score = score + usage*10 of its current record, and
\* total_score 0 and is_dormant false when it has no record.
C3_TotalScoreFromCurrentRecord ==
    ScanAppsReturned =>
      \A k \in 1..Len(scanned) :
        /\ scanned[k].total_score
             = RecordScore(scanned[k].name) + RecordUsage(scanned[k].name) * 10
        /\ scanned[k].name \notin DOMAIN db =>
             scanned[k].total_score = 0 /\ ~scanned[k].is_dormant

\* scan_apps has returned cached entities, one with a base score and a usage
\* count and one without a record.
C3_Witness ==
    /\ scanKind = "hit"
    /\ \E k \in 1..Len(scanned) :
          /\ scanned[k].name \in DOMAIN db
          /\ db[scanned[k].name].score = 50 /\ db[scanned[k].name].usage = 2
          /\ scanned[k].total_score = 70
    /\ \E k \in 1..Len(scanned) : scanned[k].name \notin DOMAIN db

\* C4: an entity is dormant iff its last_used is non-zero and lies more than
\* 2,592,000 seconds before now.
C4_DormantIffOlderThanThirtyDays ==
    ScanAppsReturned =>
      \A k \in 1..Len(scanned) :
        LET last_used == RecordLastUsed(scanned[k].name)
        IN  /\ scanned[k].is_dormant <=> (last_used # 0 /\ now - last_used > 2592000)
            /\ last_used = now - 2592001 => scanned[k].is_dormant
            /\ last_used = now - 2592000 => ~scanned[k].is_dormant
            /\ last_used = 0 => ~scanned[k].is_dormant

\* scan_apps has returned an entity last used 2,592,001 seconds ago and one
\* last used 2,592,000 seconds ago.
C4_Witness ==
    /\ ScanAppsReturned
    /\ \E k \in 1..Len(scanned) :
          RecordLastUsed(scanned[k].name) = now - 2592001 /\ scanned[k].is_dormant
    /\ \E k \in 1..Len(scanned) :
          RecordLastUsed(scanned[k].name) = now - 2592000 /\ ~scanned[k].is_dormant

\* C13: every scan_apps and rebuild_app_cache call reads the store with one
\* full-table query, whatever the number of entities.  A cache hit violates
\* it: enrich_apps_with_db_data issues one point query per cached entity.
C13_OneFullTableQueryPerScan ==
    scanKind # "none" => queries = <<"get_all_app_data">>

\* The identity triples of a list of entities.
Triples(apps) == [i \in 1..Len(apps) |-> Identity(apps[i])]

\* C14: the objects of the cache hold name, exec and is_cli_only and nothing
\* else; loading the cache a full enumeration wrote gives the triples of the
\* enumerated list, in order; and the list scan_apps returns on a cache hit
\* has the cached triples with total_score and is_dormant computed from the
\* store.
C14_CacheRoundTripAndRecompute ==
    /\ cache.kind = "array" =>
          \A i \in 1..Len(cache.items) :
             DOMAIN cache.items[i] = {"name", "exec", "is_cli_only"}
    /\ (scanKind = "rebuild" \/ (scanKind = "miss" /\ cache.kind = "array" /\ cache.items # <<>>)) =>
          /\ load_app_cache(cache).ok
          /\ Triples(load_app_cache(cache).apps) = Triples(scanned)
    /\ scanKind = "hit" =>
          /\ Len(scanned) = Len(cache.items)
          /\ Range(Triples(scanned)) = Range(Triples(load_app_cache(cache).apps))
          /\ \A k \in 1..Len(scanned) :
                LET row == get_app_data(db, scanned[k].name)
                IN  /\ scanned[k].total_score = row.score + row.usage * 10
                    /\ scanned[k].is_dormant = IsDormant(row.last_used, now)

\* A cache the enumeration wrote, whose file holds the quotes of a command
\* escaped, has been loaded: the command is back and the score is the
\* store's.
C14_Witness ==
    /\ scanKind = "hit"
    /\ cache = cache_json(scanned)
    /\ \E k \in 1..Len(scanned) :
          /\ scanned[k].exec = ExecQuoted
          /\ cache.items[k].exec # ExecQuoted
          /\ scanned[k].total_score = 20

\* C15: a scan_apps call that finds no file, unparsable content or an empty
\* array returns the full enumeration, and leaves the cache holding the
\* enumerated identities, or, when the write fails, the old or a truncated
\* content; there is no error outcome.
C15_CacheMissEnumeratesAndWrites ==
    [][(ScanApps /\ ~CacheHit(cache)) =>
          /\ cache \in {CacheMissing, CacheMalformed, CacheArray(<<>>)}
          /\ scanKind' = "miss"
          /\ scanned' = scan_apps_fresh(db, desktop, path, now)
          /\ \/ cache' = cache_json(scanned')
             \/ cache' \in {cache, CacheMalformed}]_vars

\* A miss whose write failed: the enumerated list is returned and the file
\* is unparsable.
C15_Witness ==
    /\ scanKind = "miss"
    /\ Len(scanned) = 2
    /\ cache = CacheMalformed

\* C16: a successful rebuild_app_cache returns the enumeration of the sources
\* and leaves the cache holding its identity triples, whatever the cache held;
\* a second one leaves the cache as the first did.
C16_RebuildOverwritesAndIsIdempotent ==
    [][(RebuildAppCache /\ scanKind' = "rebuild") =>
          /\ scanned' = scan_apps_fresh(db, desktop, path, now)
          /\ cache' = cache_json(scanned')
          /\ Triples(load_app_cache(cache').apps) = Triples(scanned')
          /\ scanKind = "rebuild" => cache' = cache]_vars

\* A rebuild over a store with a row: the cache holds the two identities in
\* the order of the scores.
C16_Witness ==
    /\ scanKind = "rebuild"
    /\ Len(scanned) = 2 /\ scanned[1].total_score > scanned[2].total_score
    /\ cache = cache_json(scanned)

\* C28: a scan_apps call that takes the cached list right after a call that
\* enumerated the sources, with the sources, the store and the clock as they
\* were, returns the list the first call returned: the same entities with
\* the same total_score and is_dormant in the same order.
C28_HitAfterMissReturnsTheSame ==
    [][(scanKind = "miss" /\ scanKind' = "hit") =>
          /\ scanned' = scanned
          /\ scanned' = scan_apps_fresh(db, desktop, path, now)
          /\ UNCHANGED <<db, desktop, path, now, cache>>]_vars

\* A cached scan over the store with the row of b, whose cache the scan
\* before it wrote: b leads with the score of its two launches.
C28_Witness ==
    /\ scanKind = "hit" /\ db = ScanStore
    /\ Len(scanned) >= 2 /\ scanned[1].name = NameB /\ scanned[1].total_score = 20
    /\ cache = cache_json(scan_apps_fresh(db, desktop, path, now))
    /\ queries = enrich_queries(scanned)

ReadableDesktop(dirs) ==
    LET there == SelectSeq(dirs, LAMBDA d : d.exists)
    IN  [i \in 1..Len(there) |->
           [exists |-> TRUE,
            files  |-> SelectSeq(there[i].files,
                                 LAMBDA f : f.parse_ok /\ f.section)]]

\* The PATH directories that are directories and can be read, each with the
\* entries whose metadata can be read.
ReadablePath(pth) ==
    LET there == SelectSeq(pth.dirs, LAMBDA d : d.is_dir /\ d.readable)
    IN  [set  |-> pth.set,
         dirs |-> [i \in 1..Len(there) |->
                     [there[i] EXCEPT !.entries =
                         SelectSeq(there[i].entries, LAMBDA e : e.meta_ok)]]]

\* C22: with directories that are missing or cannot be read, files the
\* parser rejects or that lack the entry section, and entries whose metadata
\* cannot be read, the enumeration completes and returns what it returns on
\* the remaining sources alone.
C22_BadSourcesAreSkipped ==
    FreshOutput =>
        scanned = scan_apps_fresh(db, ReadableDesktop(desktop), ReadablePath(path), now)

\* An enumeration over a rejected file followed by an entry, an unreadable
\* PATH directory and an unreadable entry before an executable: the entry
\* and the executable are returned.
C22_Witness ==
    /\ FreshOutput
    /\ \E i \in 1..Len(desktop) :
          /\ desktop[i].exists /\ Len(desktop[i].files) = 2
          /\ ~desktop[i].files[1].parse_ok
          /\ EntryAccepted(desktop[i].files[2])
    /\ path = PathOf(OddPathLayout)
    /\ ReadableDesktop(desktop) # desktop /\ ReadablePath(path) # path
    /\ Len(scanned) = 2
    /\ \E k \in 1..2 : scanned[k].name = NameB /\ scanned[k].is_cli_only

\* C17: no entity of the desktop-entry scan has an empty name or an empty
\* command, and each comes from an entry that is not marked NoDisplay=true.
\* An entry with the line "Name=" violates it: the scan tests the name
\* against "Unknown" only, the value it gives a missing Name.
C17_NoEmptyNameOrCommand ==
    FreshOutput =>
      \A k \in 1..Len(scanned) :
         ~scanned[k].is_cli_only =>
           /\ scanned[k].name # <<>>
           /\ scanned[k].exec # <<>>
           /\ \E i \in 1..Len(DesktopFilesOf(desktop)) :
                 LET f == DesktopFilesOf(desktop)[i]
                 IN  /\ f.NoDisplay # <<"true">>
                     /\ f.Name = <<scanned[k].name>>
                     /\ f.Exec = <<scanned[k].exec>>

--------------------------------------------------------------------------
(* The App ranking pipeline: fuzzy_search_apps, system.rs lines 380-397 *)

\* SkimMatcherV2::default() compares case-insensitively unless the pattern
\* holds an upper-case character (smart case).
CaseSensitive(pattern) == \E i \in 1..Len(pattern) : IsUpper(pattern[i])

FoldCase(c, cs) == IF cs THEN c ELSE Lower(c)

RECURSIVE MatchPositions(_, _, _, _)
\* The leftmost positions, from `from` on, at which the characters of the
\* pattern occur in order in the choice; ok is FALSE when they do not.
MatchPositions(choice, pattern, cs, from) ==
    IF pattern = <<>> THEN [ok |-> TRUE, pos |-> <<>>]
    ELSE LET hits == {i \in from..Len(choice) :
                         FoldCase(choice[i], cs) = FoldCase(pattern[1], cs)}
         IN  IF hits = {} THEN [ok |-> FALSE, pos |-> <<>>]
             ELSE LET i    == CHOOSE h \in hits : \A g \in hits : h <= g
                      rest == MatchPositions(choice, Tail(pattern), cs, i + 1)
                  IN  [ok |-> rest.ok, pos |-> <<i>> \o rest.pos]

\* matcher.fuzzy_match(choice, pattern): None when the pattern is not a
\* subsequence of the choice, else an affinity score.  The crate's scoring is
\* not part of the repository; the model keeps its shape: a score per matched
\* character, a bonus for a match at the start and for adjacent matches, a
\* penalty for the gaps.
fuzzy_match(choice, pattern) ==
    LET m == MatchPositions(choice, pattern, CaseSensitive(pattern), 1)
        n == Len(pattern)
    IN  IF ~m.ok THEN [some |-> FALSE, score |-> 0]
        ELSE IF n = 0 THEN [some |-> TRUE, score |-> 0]
        ELSE [some  |-> TRUE,
              score |-> 16 * n
                        + (IF m.pos[1] = 1 THEN 8 ELSE 0)
                        + 8 * Cardinality({k \in 1..(n - 1) : m.pos[k + 1] = m.pos[k] + 1})
                        - (m.pos[n] - m.pos[1] + 1 - n)]

\* The results of the parallel workers: one fuzzy_match per candidate.
ScoreAll(query, apps) == [i \in 1..Len(apps) |-> fuzzy_match(apps[i].name, query)]

RECURSIVE MatchesInOrder(_, _, _)
\* The (score, app) pairs of the candidates order lists, those that matched.
MatchesInOrder(apps, scores, order) ==
    IF order = <<>> THEN <<>>
    ELSE (IF scores[Head(order)].some
          THEN <<[score |-> scores[Head(order)].score, app |-> apps[Head(order)]]>>
          ELSE <<>>)
         \o MatchesInOrder(apps, scores, Tail(order))

\* A mutant of ParCollect: the pairs are collected as the workers finish.
ParCollectAsFinished(apps, scores, finished) ==
    MatchesInOrder(apps, scores, finished)

\* A mutant of ParCollect: filter_map keeps the candidates that did not match.
ParCollectUnfiltered(apps, scores, finished) ==
    [i \in 1..Len(apps) |-> [score |-> scores[i].score, app |-> apps[i]]]

\* par_iter().filter_map(..).collect::<Vec<_>>() (lines 386-389): rayon
\* collects into a Vec in the order of the slice, whatever order the workers
\* finished in.
ParCollect(apps, scores, finished) ==
    MatchesInOrder(apps, scores, [i \in 1..Len(apps) |-> i])

\* The comparator of matches.sort_by (lines 391-394): affinity descending,
\* then total_score descending.
MatchBefore(a, b) ==
    \/ a.score > b.score
    \/ a.score = b.score /\ a.app.total_score > b.app.total_score

RECURSIVE MergeMatches(_, _)
\* The merge of two sorted runs: an element of the right run goes first only
\* when it comes strictly before the head of the left run.
MergeMatches(l, r) ==
    IF l = <<>> THEN r
    ELSE IF r = <<>> THEN l
    ELSE IF MatchBefore(Head(r), Head(l)) THEN <<Head(r)>> \o MergeMatches(l, Tail(r))
    ELSE <<Head(l)>> \o MergeMatches(Tail(l), r)

RECURSIVE SortMatches(_)
\* matches.sort_by(...): a stable merge sort by MatchBefore.
SortMatches(matches) ==
    IF Len(matches) <= 1 THEN matches
    ELSE LET h == Len(matches) \div 2
         IN  MergeMatches(SortMatches(SubSeq(matches, 1, h)),
                          SortMatches(SubSeq(matches, h + 1, Len(matches))))

\* The number of results fuzzy_search_apps returns at most: take(50).
ResultCap == 50

\* A mutant of SortAndCap: the cap is applied before the sort.
CapThenSort(matches) == SortMatches(Take(matches, ResultCap))

\* Lines 391-396: the sort, then take(50).
SortAndCap(matches) == Take(SortMatches(matches), ResultCap)

\* What fuzzy_search_apps returns once the workers have produced scores,
\* having finished in the order `finished`.
RankScored(apps, scores, finished) ==
    LET top == SortAndCap(ParCollect(apps, scores, finished))
    IN  [k \in 1..Len(top) |-> top[k].app]

\* fuzzy_search_apps(query, apps)
fuzzy_search_apps(query, apps) ==
    RankScored(apps, ScoreAll(query, apps), [i \in 1..Len(apps) |-> i])

--------------------------------------------------------------------------
(* SpecRank: fuzzy_search_apps on candidate lists around the result cap *)

RankExtra == 3      \* how far the candidate lists go beyond ResultCap

Digits == <<"b", "B", "c">>

\* The i-th candidate name: "a" and four characters, distinct for i < 81.
NameOfIndex(i) ==
    <<"a", Digits[(i % 3) + 1], Digits[((i \div 3) % 3) + 1],
           Digits[((i \div 9) % 3) + 1], Digits[((i \div 27) % 3) + 1]>>

\* A list of n enriched entities as scan_apps returns it: distinct names,
\* sorted by total_score and name.  pattern spreads the total scores (0: all
\* equal); with dormancy, every third entity is dormant.
CandidateList(n, pattern, dormancy) ==
    SortApps([k \in 1..n |->
                [name        |-> NameOfIndex(k - 1),
                 exec        |-> NameOfIndex(k - 1),
                 is_cli_only |-> TRUE,
                 total_score |-> (((k - 1) * pattern) % 7) * 10,
                 is_dormant  |-> dormancy /\ (k % 3 = 0)]])

RankQueries ==
    { <<"a">>, <<"b">>, <<"B">>, <<"a", "b">>, <<"c", "b">>, <<"d">> }

InitRank ==
    /\ \E n \in {1, ResultCap - 1, ResultCap, ResultCap + 1, ResultCap + RankExtra} :
       \E pattern \in {0, 1, 3} : \E dormancy \in BOOLEAN :
          rankApps = CandidateList(n, pattern, dormancy)
    /\ rankQuery \in RankQueries
    /\ rankResult = <<>> /\ rankDone = FALSE
    /\ parScored = <<>> /\ parOrder = <<>>
    /\ now = NowBase /\ db = <<>> /\ cache = CacheMissing
    /\ desktop = <<>> /\ path = PathUnset
    /\ IdleScan /\ lastOp = NoOp /\ IdleApp /\ IdleMain

\* One call of fuzzy_search_apps.
RankSearch ==
    /\ ~rankDone
    /\ rankResult' = fuzzy_search_apps(rankQuery, rankApps)
    /\ rankDone' = TRUE
    /\ UNCHANGED <<rankApps, rankQuery, parScored, parOrder,
                   envVars, scanVars, lastOp, appVars, mainVars>>

NextRank == RankSearch

SpecRank == InitRank /\ [][NextRank]_vars

\* The candidates of rankApps the matcher accepts for the query.
MatchingIndices ==
    {i \in 1..Len(rankApps) : fuzzy_match(rankApps[i].name, rankQuery).some}

Affinity(app) == fuzzy_match(app.name, rankQuery).score

\* The (affinity, total_score) key of a is strictly higher than that of b.
KeyHigher(a, b) ==
    \/ Affinity(a) > Affinity(b)
    \/ Affinity(a) = Affinity(b) /\ a.total_score > b.total_score

\* C6: for a non-empty query, every entity fuzzy_search_apps returns has a
\* name the fuzzy matcher scores for that query.
C6_OnlyMatchingNamesReturned ==
    (rankDone /\ rankQuery # <<>>) =>
      \A k \in 1..Len(rankResult) :
        /\ fuzzy_match(rankResult[k].name, rankQuery).some
        /\ MatchPositions(rankResult[k].name, rankQuery,
                          CaseSensitive(rankQuery), 1).ok

\* A search has returned some candidates of a list that also holds
\* candidates the query does not match.
C6_Witness ==
    /\ rankDone /\ rankQuery # <<>>
    /\ rankResult # <<>>
    /\ \E i \in 1..Len(rankApps) : i \notin MatchingIndices

\* C7: the result holds min(50, matches) distinct matching candidates in
\* non-increasing (affinity, total_score) order, and no matching candidate
\* left out has a strictly higher key than one that is in.
C7_CapAppliedAfterSorting ==
    (rankDone /\ rankQuery # <<>>) =>
      LET n == Cardinality(MatchingIndices)
      IN  /\ Len(rankResult) = (IF n < 50 THEN n ELSE 50)
          /\ \A k \in 1..Len(rankResult) :
                \E i \in MatchingIndices : rankApps[i] = rankResult[k]
          /\ \A k, l \in 1..Len(rankResult) :
                k # l => rankResult[k].name # rankResult[l].name
          /\ \A k \in 1..(Len(rankResult) - 1) :
                ~KeyHigher(rankResult[k + 1], rankResult[k])
          /\ \A i \in MatchingIndices :
                rankApps[i] \notin Range(rankResult) =>
                  \A k \in 1..Len(rankResult) : ~KeyHigher(rankApps[i], rankResult[k])

\* A search has returned 50 of more than 50 matching candidates that differ
\* in affinity and, within one affinity, in total_score.
C7_Witness ==
    /\ rankDone /\ rankQuery # <<>>
    /\ Cardinality(MatchingIndices) > 50
    /\ Len(rankResult) = 50
    /\ \E k, l \in 1..Len(rankResult) :
          Affinity(rankResult[k]) > Affinity(rankResult[l])
    /\ \E k, l \in 1..Len(rankResult) :
          /\ Affinity(rankResult[k]) = Affinity(rankResult[l])
          /\ rankResult[k].total_score > rankResult[l].total_score

--------------------------------------------------------------------------
(* SpecPar: fuzzy_search_apps with its rayon workers *)

MaxParApps == 3     \* candidates of a parallel search

ParNames == { <<"a", "b">>, <<"b", "a">>, <<"a", "B">>, <<"b">>, <<"c", "a", "b">> }

Pending == [done |-> FALSE, some |-> FALSE, score |-> 0]

InitPar ==
    /\ \E names \in SUBSET ParNames : \E spread \in {0, 10} :
          /\ Cardinality(names) <= MaxParApps
          /\ \E f \in [names -> {0, spread}] :
               \E order \in [1..Cardinality(names) -> names] :
                  /\ \A i, j \in 1..Cardinality(names) : i # j => order[i] # order[j]
                  /\ LET apps == [k \in 1..Cardinality(names) |->
                                    [name |-> order[k], exec |-> order[k],
                                     is_cli_only |-> TRUE,
                                     total_score |-> f[order[k]],
                                     is_dormant |-> FALSE]]
                     IN  apps = SortApps(apps) /\ rankApps = apps
    /\ rankQuery \in { <<"a">>, <<"b">>, <<"a", "b">> }
    /\ rankResult = <<>> /\ rankDone = FALSE
    /\ parScored = [i \in 1..Len(rankApps) |-> Pending]
    /\ parOrder = <<>>
    /\ now = NowBase /\ db = <<>> /\ cache = CacheMissing
    /\ desktop = <<>> /\ path = PathUnset
    /\ IdleScan /\ lastOp = NoOp /\ IdleApp /\ IdleMain

\* A worker scores one candidate: the closure of filter_map (line 388).
\* Candidates are scored in any order.
ParWorker(i) ==
    /\ ~rankDone
    /\ ~parScored[i].done
    /\ parScored' = [parScored EXCEPT
                       ![i] = [done  |-> TRUE,
                               some  |-> fuzzy_match(rankApps[i].name, rankQuery).some,
                               score |-> fuzzy_match(rankApps[i].name, rankQuery).score]]
    /\ parOrder' = Append(parOrder, i)
    /\ UNCHANGED <<rankApps, rankQuery, rankResult, rankDone,
                   envVars, scanVars, lastOp, appVars, mainVars>>

\* All candidates are scored: collect, sort, take and return (lines 389-396).
ParFinish ==
    /\ ~rankDone
    /\ \A i \in 1..Len(rankApps) : parScored[i].done
    /\ rankResult' = RankScored(rankApps, parScored, parOrder)
    /\ rankDone' = TRUE
    /\ UNCHANGED <<rankApps, rankQuery, parScored, parOrder,
                   envVars, scanVars, lastOp, appVars, mainVars>>

NextPar == (\E i \in 1..Len(rankApps) : ParWorker(i)) \/ ParFinish

SpecPar == InitPar /\ [][NextPar]_vars

--------------------------------------------------------------------------
(* SpecStore: the upserts of the preference store, db.rs lines 88-125 *)

MaxTicks == 1       \* seconds the clock advances
MaxUsage == 3       \* launches recorded for one name

StoreNames == {NameA, NameB}

\* The usage column of name, 0 when it has no row.
UsageOf(store, name) == get_app_data(store, name).usage

InitStore ==
    /\ now = NowBase
    /\ db \in { <<>>,
                (NameA :> [is_tui |-> TRUE, score |-> 50, usage |-> 2,
                           last_used |-> NowBase - 5]) }
    /\ lastOp = NoOp
    /\ cache = CacheMissing /\ desktop = <<>> /\ path = PathUnset
    /\ IdleScan /\ IdleRank /\ IdleApp /\ IdleMain

\* The clock advances.
Tick ==
    /\ now < NowBase + MaxTicks
    /\ now' = now + 1
    /\ UNCHANGED <<db, cache, desktop, path, scanVars, rankVars, lastOp, appVars, mainVars>>

\* A call of increment_usage (lines 88-103): the statement runs as one atomic
\* upsert, or fails and changes nothing.
IncrementUsage(app_name, ok) ==
    /\ UsageOf(db, app_name) < MaxUsage
    /\ db' = IF ok THEN increment_usage(db, app_name, now) ELSE db
    /\ lastOp' = [op |-> "increment_usage", name |-> app_name, ok |-> ok]
    /\ UNCHANGED <<now, cache, desktop, path, scanVars, rankVars, appVars, mainVars>>

\* A call of set_tui_mode (lines 106-114).
SetTuiMode(app_name, is_tui, ok) ==
    /\ db' = IF ok THEN set_tui_mode(db, app_name, is_tui) ELSE db
    /\ lastOp' = [op |-> "set_tui_mode", name |-> app_name, ok |-> ok]
    /\ UNCHANGED <<now, cache, desktop, path, scanVars, rankVars, appVars, mainVars>>

\* A call of set_base_score (lines 117-125); seed_database passes 50.
SetBaseScore(app_name, score, ok) ==
    /\ db' = IF ok THEN set_base_score(db, app_name, score) ELSE db
    /\ lastOp' = [op |-> "set_base_score", name |-> app_name, ok |-> ok]
    /\ UNCHANGED <<now, cache, desktop, path, scanVars, rankVars, appVars, mainVars>>

\* The package listings seed_database reads: a line without a path, and the
\* lines of the executables a and b.
SeedListings ==
    { << <<"p">>, <<"p", " ", "/", "b", "/", "a">> >>,
      << <<"p", " ", "/", "b", "/", "a">>, <<"q", " ", "/", "b", "/", "b">> >> }

\* A run of the launcher with --seed (main.rs lines 24-29).
SeedDatabase(lines, oks) ==
    /\ db' = seed_database(db, lines, oks)
    /\ lastOp' = [op |-> "seed_database", name |-> <<>>, ok |-> \A i \in 1..Len(oks) : oks[i]]
    /\ UNCHANGED <<now, cache, desktop, path, scanVars, rankVars, appVars, mainVars>>

NextStore ==
    \/ Tick
    \/ \E n \in StoreNames : \E ok \in BOOLEAN : IncrementUsage(n, ok)
    \/ \E n \in StoreNames : \E f \in BOOLEAN : \E ok \in BOOLEAN : SetTuiMode(n, f, ok)
    \/ \E n \in StoreNames : \E ok \in BOOLEAN : SetBaseScore(n, 50, ok)
    \/ \E lines \in SeedListings : \E oks \in [1..Len(lines) -> BOOLEAN] :
          SeedDatabase(lines, oks)

SpecStore == InitStore /\ [][NextStore]_vars

\* A read by name: get_app_data, has_entry or is_tui_app (db.rs lines 38-53,
\* 128-147), each one SELECT.
Lookup(app_name) ==
    /\ lastOp' = [op |-> "get_app_data", name |-> app_name, ok |-> TRUE]
    /\ UNCHANGED <<now, db, cache, desktop, path, scanVars, rankVars, appVars, mainVars>>

\* The calls of the store together with its readers: the reads by name and
\* scan_apps, which reads the table.
NextStoreCalls ==
    \/ NextStore
    \/ \E n \in StoreNames : Lookup(n)
    \/ ScanApps

SpecStoreCalls == InitStore /\ [][NextStoreCalls]_vars

\* C24: no call of the store removes a name that has a row, and no call
\* lowers the usage of a row: launches, TUI toggles, base scores, seeding,
\* reads and scans.
C24_RowsStayUsageGrows ==
    [][/\ DOMAIN db \subseteq DOMAIN db'
       /\ \A n \in DOMAIN db : db'[n].usage >= db[n].usage]_vars

\* After a scan and a read by name: a has been launched up to the bound and
\* b has a row with the flag cleared.
C24_Witness ==
    /\ lastOp.op = "get_app_data" /\ scanKind = "miss"
    /\ NameA \in DOMAIN db /\ db[NameA].usage = MaxUsage /\ db[NameA].score = 50
    /\ NameB \in DOMAIN db /\ ~db[NameB].is_tui /\ db[NameB].usage = 1

\* C10: a successful increment_usage creates the row (false, 0, 1, now) for
\* an absent name, turns the row (f, s, u, T) of a present name into
\* (f, s, u+1, now), and changes no other row.
C10_RecordLaunchUpsert ==
    [][\A n \in StoreNames :
         IncrementUsage(n, TRUE) =>
           /\ DOMAIN db' = DOMAIN db \cup {n}
           /\ n \notin DOMAIN db =>
                db'[n] = [is_tui |-> FALSE, score |-> 0, usage |-> 1, last_used |-> now]
           /\ n \in DOMAIN db =>
                db'[n] = [is_tui    |-> db[n].is_tui,
                          score     |-> db[n].score,
                          usage     |-> db[n].usage + 1,
                          last_used |-> now]
           /\ \A m \in DOMAIN db : m # n => db'[m] = db[m]]_vars

\* increment_usage has turned a row with usage 2 and an earlier last_used
\* into one with usage 3 and last_used = now, beside another name's row.
C10_Witness ==
    /\ lastOp.op = "increment_usage" /\ lastOp.ok /\ lastOp.name = NameA
    /\ NameA \in DOMAIN db /\ NameB \in DOMAIN db
    /\ db[NameA] = [is_tui |-> TRUE, score |-> 50, usage |-> 3, last_used |-> now]
    /\ now > NowBase - 5

\* C11: a successful set_tui_mode creates the row (flag, 0, 0, 0) for an
\* absent name, changes only is_tui in the row of a present name, and changes
\* no other row.
C11_SetTuiChangesOnlyFlag ==
    [][\A n \in StoreNames : \A f \in BOOLEAN :
         SetTuiMode(n, f, TRUE) =>
           /\ DOMAIN db' = DOMAIN db \cup {n}
           /\ n \notin DOMAIN db =>
                db'[n] = [is_tui |-> f, score |-> 0, usage |-> 0, last_used |-> 0]
           /\ n \in DOMAIN db =>
                db'[n] = [is_tui    |-> f,
                          score     |-> db[n].score,
                          usage     |-> db[n].usage,
                          last_used |-> db[n].last_used]
           /\ \A m \in DOMAIN db : m # n => db'[m] = db[m]]_vars

\* set_tui_mode has cleared the flag of a seeded, launched row, beside
\* another name's row.
C11_Witness ==
    /\ lastOp.op = "set_tui_mode" /\ lastOp.ok /\ lastOp.name = NameA
    /\ NameA \in DOMAIN db /\ NameB \in DOMAIN db
    /\ db[NameA] = [is_tui |-> FALSE, score |-> 50, usage |-> 2,
                     last_used |-> NowBase - 5]

\* C12: a successful set_base_score overwrites score in the row of a present
\* name and leaves is_tui, usage and last_used; for an absent name it creates
\* the row (false, score, 0, 0); it changes no other row; and a seeding run
\* lowers no usage counter, removes no row, and changes no is_tui and no
\* last_used.
C12_SetBaseScoreKeepsUsage ==
    [][/\ \A n \in StoreNames :
            SetBaseScore(n, 50, TRUE) =>
              /\ DOMAIN db' = DOMAIN db \cup {n}
              /\ n \notin DOMAIN db =>
                   db'[n] = [is_tui |-> FALSE, score |-> 50, usage |-> 0, last_used |-> 0]
              /\ n \in DOMAIN db =>
                   db'[n] = [is_tui    |-> db[n].is_tui,
                             score     |-> 50,
                             usage     |-> db[n].usage,
                             last_used |-> db[n].last_used]
              /\ \A m \in DOMAIN db : m # n => db'[m] = db[m]
       /\ lastOp'.op = "seed_database" =>
              /\ DOMAIN db \subseteq DOMAIN db'
              /\ \A m \in DOMAIN db :
                   /\ db'[m].usage = db[m].usage
                   /\ db'[m].is_tui = db[m].is_tui
                   /\ db'[m].last_used = db[m].last_used]_vars

\* A seeding run after two launches of b: its row has the seeded score and
\* still counts two launches.
C12_Witness ==
    /\ lastOp.op = "seed_database" /\ lastOp.ok
    /\ NameB \in DOMAIN db
    /\ db[NameB].score = 50 /\ db[NameB].usage = 2 /\ db[NameB].last_used >= NowBase

--------------------------------------------------------------------------
(* The File pipeline: FileSearcher::search, system.rs lines 323-373 *)

\* The walk of the home directory is a sequence of entries [ok, is_file, path]
\* in the order the walker yields them: ok is FALSE for an entry the walker
\* reports as an error.

\* query_lower.chars().all(|c| path_lower.contains(c))
PreFilter(path_str, query) ==
    \A i \in 1..Len(query) :
        ContainsChar(LowerStr(path_str), LowerStr(query)[i])

\* The test at the head of the loop body (line 343), off by one: it lets
\* one candidate more in.
WalkCapExceeded(candidates, limit) == Len(candidates) > limit * 10

\* candidates.len() >= limit * 10 (line 343)
WalkCapReached(candidates, limit) == Len(candidates) >= limit * 10

\* The loop body after the test (lines 347-357): a regular file whose path
\* passes the pre-filter is pushed.
ExamineEntry(e, query, candidates) ==
    IF e.ok /\ e.is_file /\ PreFilter(e.path, query)
    THEN Append(candidates, e.path) ELSE candidates

RECURSIVE CollectCandidates(_, _, _, _)
\* The walk loop (lines 341-358): stops once limit * 10 candidates are held.
CollectCandidates(entries, query, limit, candidates) ==
    IF entries = <<>> THEN candidates
    ELSE IF WalkCapReached(candidates, limit) THEN candidates
    ELSE CollectCandidates(Tail(entries), query, limit,
                           ExamineEntry(Head(entries), query, candidates))

\* The comparator of results.sort_by (line 370): affinity descending.
FileBefore(a, b) == a.score > b.score

RECURSIVE InsertFile(_, _)
InsertFile(x, s) ==
    IF s = <<>> THEN <<x>>
    ELSE IF FileBefore(x, Head(s)) THEN <<x>> \o s
    ELSE <<Head(s)>> \o InsertFile(x, Tail(s))

\* No sort: the results in the order of the walk.
SortFilesWalkOrder(results) == results

RECURSIVE SortFiles(_)
SortFiles(results) ==
    IF results = <<>> THEN <<>>
    ELSE InsertFile(results[Len(results)],
                    SortFiles(SubSeq(results, 1, Len(results) - 1)))

\* Steps 2 and 3 (lines 360-372): the candidates the matcher accepts, by
\* descending affinity, cut to the limit.
RankCandidates(candidates, query, limit) ==
    LET scored  == [i \in 1..Len(candidates) |->
                      [m |-> fuzzy_match(candidates[i], query),
                       path |-> candidates[i]]]
        results == [i \in 1..Len(SelectSeq(scored, LAMBDA r : r.m.some)) |->
                      [score |-> SelectSeq(scored, LAMBDA r : r.m.some)[i].m.score,
                       path  |-> SelectSeq(scored, LAMBDA r : r.m.some)[i].path]]
        top == Take(SortFiles(results), limit)
    IN  [i \in 1..Len(top) |-> top[i].path]

\* FileSearcher::search(query, limit)
file_search(entries, query, limit) ==
    IF query = <<>> THEN <<>>
    ELSE RankCandidates(CollectCandidates(entries, query, limit, <<>>), query, limit)

--------------------------------------------------------------------------
(* SpecFiles: one call of FileSearcher::search, entry by entry.  walk holds
   the call: built tells whether the walker was built, pos how many entries
   the walker has yielded, examined how many of them the loop body looked
   at. *)

MaxTree  == 24      \* entries the walker can yield
MaxLimit == 2       \* the result limit of a call

DecimalDigits == <<"0", "1", "2", "3", "4", "5", "6", "7", "8", "9">>

\* The decimal numeral of i < 100.
Numeral(i) ==
    IF i < 10 THEN <<DecimalDigits[i + 1]>>
    ELSE <<DecimalDigits[(i \div 10) + 1], DecimalDigits[(i % 10) + 1]>>

\* The kinds of entries of a walk, in the order they recur.
EntryKinds == <<"file_c", "file_a_b", "file_ab", "dir_a", "file_ba", "error", "file_Ab">>

\* The i-th entry of a walk, of the given kind.
WalkEntry(kind, i) ==
    CASE kind = "file_ab" ->
           [ok |-> TRUE, is_file |-> TRUE, path |-> <<"/", "h", "/", "a", "b">> \o Numeral(i)]
      [] kind = "file_a_b" ->
           [ok |-> TRUE, is_file |-> TRUE, path |-> <<"/", "h", "/", "a", "/", "b">> \o Numeral(i)]
      [] kind = "file_Ab" ->
           [ok |-> TRUE, is_file |-> TRUE, path |-> <<"/", "h", "/", "A", "b">> \o Numeral(i)]
      [] kind = "file_ba" ->
           [ok |-> TRUE, is_file |-> TRUE, path |-> <<"/", "h", "/", "b", "a">> \o Numeral(i)]
      [] kind = "file_c" ->
           [ok |-> TRUE, is_file |-> TRUE, path |-> <<"/", "h", "/", "c">> \o Numeral(i)]
      [] kind = "dir_a" ->
           [ok |-> TRUE, is_file |-> FALSE, path |-> <<"/", "h", "/", "a">> \o Numeral(i)]
      [] OTHER ->
           [ok |-> FALSE, is_file |-> FALSE, path |-> <<>>]

\* The walk of n entries whose kinds recur from the given offset on.
WalkOf(n, offset) ==
    [i \in 1..n |-> WalkEntry(EntryKinds[((i + offset) % Len(EntryKinds)) + 1], i)]

FileQueries == { <<>>, <<"a">>, <<"a", "b">>, <<"c", "A">> }

InitFiles ==
    /\ \E n \in 0..MaxTree, offset \in 0..2 : tree = WalkOf(n, offset)
    /\ \E q \in FileQueries, l \in 0..MaxLimit :
          walk = [NoWalk EXCEPT !.phase = "called", !.query = q, !.limit = l]
    /\ now = NowBase /\ db = <<>> /\ cache = CacheMissing
    /\ desktop = <<>> /\ path = PathUnset
    /\ IdleScan /\ IdleRank /\ lastOp = NoOp /\ IdleApp
    /\ pc = "none" /\ spawned = <<>>

FilesFrame == UNCHANGED <<envVars, scanVars, rankVars, lastOp, appVars, pc, spawned, tree>>

\* Lines 326-339: an empty query returns before the walker is built.
SearchEnter ==
    /\ walk.phase = "called"
    /\ walk' = IF walk.query = <<>>
               THEN [walk EXCEPT !.phase = "returned", !.result = <<>>]
               ELSE [walk EXCEPT !.phase = "walking", !.built = TRUE]
    /\ FilesFrame

\* One turn of `for entry in walker` (lines 341-358): the walker yields its
\* next entry or ends the loop; the body leaves the loop when the cap is
\* reached and looks at the entry otherwise.
WalkStep ==
    /\ walk.phase = "walking"
    /\ walk' = IF walk.pos = Len(tree)
               THEN [walk EXCEPT !.phase = "matching"]
               ELSE IF WalkCapReached(walk.candidates, walk.limit)
               THEN [walk EXCEPT !.phase = "matching", !.pos = walk.pos + 1]
               ELSE [walk EXCEPT !.pos = walk.pos + 1,
                                 !.examined = walk.examined + 1,
                                 !.candidates = ExamineEntry(tree[walk.pos + 1],
                                                             walk.query, walk.candidates)]
    /\ FilesFrame

\* Lines 360-372: match, sort, truncate, return.
MatchAndReturn ==
    /\ walk.phase = "matching"
    /\ walk' = [walk EXCEPT !.phase = "returned",
                            !.result = RankCandidates(walk.candidates, walk.query,
                                                      walk.limit)]
    /\ FilesFrame

NextFiles == SearchEnter \/ WalkStep \/ MatchAndReturn

SpecFiles == InitFiles /\ [][NextFiles]_vars

\* The paths of the regular files among the entries that pass the pre-filter.
PassingPaths(entries, query) ==
    LET passing == SelectSeq(entries,
                       LAMBDA e : e.ok /\ e.is_file /\ PreFilter(e.path, query))
    IN  [i \in 1..Len(passing) |-> passing[i].path]

\* C20: during a search with limit L the candidates never number more than
\* 10 * L; they are the passing files of the entries the loop body looked
\* at, the last of which is the one that filled the list, so that no entry
\* is looked at once 10 * L candidates are held and the walker yields at
\* most one entry more, which is dropped; the returned list holds at most L
\* paths and is what file_search computes.
C20_CandidateCapDuringWalk ==
    walk.phase # "none" =>
        /\ Len(walk.candidates) <= 10 * walk.limit
        /\ walk.examined <= walk.pos /\ walk.pos <= walk.examined + 1
        /\ walk.pos <= Len(tree)
        /\ walk.candidates = PassingPaths(SubSeq(tree, 1, walk.examined), walk.query)
        /\ (Len(walk.candidates) = 10 * walk.limit /\ walk.examined > 0) =>
              walk.candidates # <<>>
              /\ tree[walk.examined].path = walk.candidates[Len(walk.candidates)]
        /\ walk.pos > walk.examined =>
              walk.phase # "walking" /\ Len(walk.candidates) = 10 * walk.limit
        /\ walk.phase = "returned" =>
              /\ Len(walk.result) <= walk.limit
              /\ walk.result = file_search(tree, walk.query, walk.limit)

\* The tree of the example: /home/u/src/main.rs and /home/u/docs/readme.md
ExampleTree ==
    << [ok |-> TRUE, is_file |-> TRUE,
        path |-> <<"/", "h", "o", "m", "e", "/", "u", "/", "d", "o", "c", "s", "/",
                   "r", "e", "a", "d", "m", "e", ".", "m", "d">>],
       [ok |-> TRUE, is_file |-> TRUE,
        path |-> <<"/", "h", "o", "m", "e", "/", "u", "/", "s", "r", "c", "/",
                   "m", "a", "i", "n", ".", "r", "s">>] >>

\* C21: every path a non-empty query returns is the path of a regular file
\* the walk looked at, holds every character of the query when both are
\* lowered, and is accepted by the matcher; the paths are in non-increasing
\* order of affinity; the query "main" over the example tree returns
\* /home/u/src/main.rs alone.
C21_FileResultsFilteredAndOrdered ==
    /\ (walk.phase = "returned" /\ walk.query # <<>>) =>
          /\ \A i \in 1..Len(walk.result) :
                /\ \E k \in 1..walk.examined :
                      /\ tree[k].ok /\ tree[k].is_file
                      /\ tree[k].path = walk.result[i]
                /\ \A j \in 1..Len(walk.query) :
                      ContainsChar(LowerStr(walk.result[i]), Lower(walk.query[j]))
                /\ fuzzy_match(walk.result[i], walk.query).some
          /\ \A i \in 1..(Len(walk.result) - 1) :
                fuzzy_match(walk.result[i], walk.query).score
                   >= fuzzy_match(walk.result[i + 1], walk.query).score
    /\ file_search(ExampleTree, <<"m", "a", "i", "n">>, 50) = <<ExampleTree[2].path>>

\* A search that returned two paths, the first of which the walk met after
\* a candidate of lower affinity that is not returned, with a file that
\* passes the pre-filter and that the matcher rejects.
C21_Witness ==
    /\ walk.phase = "returned" /\ Len(walk.result) = 2
    /\ \E k \in 1..Len(walk.candidates) :
          /\ fuzzy_match(walk.candidates[k], walk.query).some
          /\ fuzzy_match(walk.candidates[k], walk.query).score
                < fuzzy_match(walk.result[1], walk.query).score
          /\ \E m \in (k + 1)..Len(walk.candidates) :
                walk.candidates[m] = walk.result[1]
    /\ \E k \in 1..Len(walk.candidates) :
          ~fuzzy_match(walk.candidates[k], walk.query).some

\* A search with limit 1 that returned one path after it had stopped on ten
\* candidates, with entries of the tree left that the walker never yielded.
C20_Witness ==
    /\ walk.phase = "returned" /\ walk.limit = 1
    /\ Len(walk.candidates) = 10 /\ Len(walk.result) = 1
    /\ walk.pos + 2 <= Len(tree)
    /\ \E i \in (walk.pos + 1)..Len(tree) :
          tree[i].ok /\ tree[i].is_file /\ PreFilter(tree[i].path, walk.query)

--------------------------------------------------------------------------
(* App: app.rs.  Every operation is an action on the App's fields; the store
   is the only other state an operation changes. *)

\* Fields no App operation changes.
AppFrame == UNCHANGED <<now, cache, desktop, path, scanVars, rankVars, lastOp,
                        all_apps, spawned, fileVars>>

\* The list of the input as it was before the operation: a result that
\* lags one query behind.
DisplayedAppsOfEarlierInput(inp, apps, show) ==
    LET matched == IF input = <<>> THEN apps ELSE fuzzy_search_apps(input, apps)
    IN  SelectSeq(matched, LAMBDA app : show \/ ~app.is_dormant)

\* The list update_search computes in Apps mode (lines 200-212).
DisplayedApps(inp, apps, show) ==
    LET matched == IF inp = <<>> THEN apps ELSE fuzzy_search_apps(inp, apps)
    IN  SelectSeq(matched, LAMBDA app : show \/ ~app.is_dormant)

\* update_search that leaves the file list as it stands on an empty input.
update_search_keeps_files(inp, md, show) ==
    /\ selected_index' = 0
    /\ filtered_apps' = IF md = "Apps" THEN DisplayedApps(inp, all_apps, show)
                        ELSE filtered_apps
    /\ filtered_files' = IF md # "Files" \/ inp = <<>> THEN filtered_files
                         ELSE file_search(tree, inp, 50)

\* update_search (lines 195-224) for the new input, mode and show_dormant.
update_search(inp, md, show) ==
    /\ selected_index' = 0
    /\ filtered_apps' = IF md = "Apps" THEN DisplayedApps(inp, all_apps, show)
                        ELSE filtered_apps
    /\ filtered_files' = IF md # "Files" THEN filtered_files
                         ELSE IF inp = <<>> THEN <<>>
                         ELSE file_search(tree, inp, 50)

\* result_count (lines 226-231)
result_count == IF mode = "Apps" THEN Len(filtered_apps) ELSE Len(filtered_files)

\* A panic: the process aborts where it stands.
Panic ==
    /\ pc' = "panicked"
    /\ UNCHANGED <<input, input_mode, mode, selected_index, show_dormant,
                   filtered_apps, filtered_files, should_quit, should_launch,
                   launch_command, db>>

MaxInput == 1       \* characters typed into the input

\* insert_char (lines 77-81)
insert_char(c) ==
    /\ AppFrame
    /\ IF ~IsCharBoundary(input, cursor_pos)
       THEN Panic /\ UNCHANGED cursor_pos
       ELSE /\ Len(input) < MaxInput
            /\ input' = StringInsert(input, cursor_pos, c)
            /\ cursor_pos' = cursor_pos + 1
            /\ update_search(input', mode, show_dormant)
            /\ UNCHANGED <<input_mode, mode, show_dormant, should_quit, should_launch,
                           launch_command, db, pc>>

\* backspace (lines 83-89)
backspace ==
    /\ AppFrame
    /\ IF cursor_pos > 0
       THEN IF ~IsCharBoundary(input, cursor_pos - 1) \/ cursor_pos - 1 >= ByteLen(input)
            THEN Panic /\ cursor_pos' = cursor_pos - 1
            ELSE /\ cursor_pos' = cursor_pos - 1
                 /\ input' = StringRemove(input, cursor_pos - 1)
                 /\ update_search(input', mode, show_dormant)
                 /\ UNCHANGED <<input_mode, mode, show_dormant, should_quit,
                                should_launch, launch_command, db, pc>>
       ELSE UNCHANGED <<appVars, db, pc>>

\* delete_char (lines 91-96)
delete_char ==
    /\ AppFrame
    /\ IF cursor_pos < ByteLen(input)
       THEN IF ~IsCharBoundary(input, cursor_pos)
            THEN Panic /\ UNCHANGED cursor_pos
            ELSE /\ input' = StringRemove(input, cursor_pos)
                 /\ update_search(input', mode, show_dormant)
                 /\ UNCHANGED <<cursor_pos, input_mode, mode, show_dormant, should_quit,
                                should_launch, launch_command, db, pc>>
       ELSE UNCHANGED <<appVars, db, pc>>

\* An operation that changes cursor_pos only.
SetCursor(b) ==
    /\ AppFrame
    /\ cursor_pos' = b
    /\ UNCHANGED <<input, input_mode, mode, selected_index, show_dormant,
                   filtered_apps, filtered_files, should_quit, should_launch,
                   launch_command, db, pc>>

\* move_cursor_left, move_cursor_right, move_cursor_start, move_cursor_end
\* (lines 98-116)
move_cursor_left  == SetCursor(IF cursor_pos > 0 THEN cursor_pos - 1 ELSE cursor_pos)
move_cursor_right == SetCursor(IF cursor_pos < ByteLen(input) THEN cursor_pos + 1
                               ELSE cursor_pos)
move_cursor_start == SetCursor(0)
move_cursor_end   == SetCursor(ByteLen(input))

\* clear_input (lines 118-122)
clear_input ==
    /\ AppFrame
    /\ input' = <<>>
    /\ cursor_pos' = 0
    /\ update_search(<<>>, mode, show_dormant)
    /\ UNCHANGED <<input_mode, mode, show_dormant, should_quit, should_launch,
                   launch_command, db, pc>>

\* enter_normal_mode, enter_insert_mode (lines 128-134)
SetInputMode(m) ==
    /\ AppFrame
    /\ input_mode' = m
    /\ UNCHANGED <<input, cursor_pos, mode, selected_index, show_dormant,
                   filtered_apps, filtered_files, should_quit, should_launch,
                   launch_command, db, pc>>

enter_normal_mode == SetInputMode("Normal")
enter_insert_mode == SetInputMode("Insert")

\* toggle_mode (lines 144-151)
toggle_mode ==
    /\ AppFrame
    /\ mode' = IF mode = "Apps" THEN "Files" ELSE "Apps"
    /\ update_search(input, mode', show_dormant)
    /\ UNCHANGED <<input, input_mode, cursor_pos, show_dormant, should_quit,
                   should_launch, launch_command, db, pc>>

\* toggle_dormant (lines 153-156)
toggle_dormant ==
    /\ AppFrame
    /\ show_dormant' = ~show_dormant
    /\ update_search(input, mode, show_dormant')
    /\ UNCHANGED <<input, input_mode, cursor_pos, mode, should_quit,
                   should_launch, launch_command, db, pc>>

\* An operation that changes selected_index only.
SetSelected(i) ==
    /\ AppFrame
    /\ selected_index' = i
    /\ UNCHANGED <<input, input_mode, cursor_pos, mode, show_dormant,
                   filtered_apps, filtered_files, should_quit, should_launch,
                   launch_command, db, pc>>

\* A next that wraps one position late.
next_wraps_late == SetSelected(IF result_count > 0
                               THEN (selected_index + 1) % (result_count + 1)
                               ELSE selected_index)

\* next, previous, go_top, go_bottom (lines 162-189)
next == SetSelected(IF result_count > 0 THEN (selected_index + 1) % result_count
                    ELSE selected_index)
previous == SetSelected(IF result_count > 0
                        THEN (IF selected_index = 0 THEN result_count - 1
                              ELSE selected_index - 1)
                        ELSE selected_index)
go_top == SetSelected(0)
go_bottom == SetSelected(IF result_count > 0 THEN result_count - 1 ELSE selected_index)

\* quit (lines 303-305)
quit ==
    /\ AppFrame
    /\ should_quit' = TRUE
    /\ UNCHANGED <<input, input_mode, cursor_pos, mode, selected_index, show_dormant,
                   filtered_apps, filtered_files, should_launch, launch_command, db, pc>>

\* An operation that returns without changing anything.
NoChange == AppFrame /\ UNCHANGED <<appVars, db, pc>>

\* The entity at the head of the list.
FirstApp == filtered_apps[1]

\* &self.filtered_apps[self.selected_index] (lines 242, 256)
SelectedApp == filtered_apps[selected_index + 1]

\* toggle_tui_preference (lines 237-248); the upsert may fail, which is
\* ignored.
toggle_tui_preference ==
    IF mode = "Apps" /\ filtered_apps # <<>>
    THEN /\ AppFrame
         /\ IF selected_index >= Len(filtered_apps)
            THEN Panic /\ UNCHANGED cursor_pos
            ELSE LET app == SelectedApp
                     current_state == is_tui_app(db, app.name)
                 IN  /\ \E ok \in BOOLEAN :
                          db' = IF ok THEN set_tui_mode(db, app.name, ~current_state)
                                ELSE db
                     /\ UNCHANGED <<appVars, pc>>
    ELSE NoChange

RECURSIVE ShellWords(_, _, _, _)
\* shell_words::split as the state machine of the crate, on the rest s of
\* the input: word is the word being read, words the finished ones.  The
\* result is [ok, words], ok FALSE for a quote left open.  The backquote
\* is the character "U+60".
ShellWords(s, state, word, words) ==
    IF s = <<>>
    THEN CASE state \in {"Delimiter", "Comment"} -> [ok |-> TRUE, words |-> words]
           [] state = "Unquoted" -> [ok |-> TRUE, words |-> Append(words, word)]
           [] state \in {"Backslash", "UnquotedBackslash"} ->
                [ok |-> TRUE, words |-> Append(words, Append(word, "\\"))]
           [] OTHER -> [ok |-> FALSE, words |-> <<>>]
    ELSE LET c == Head(s)
             r == Tail(s)
         IN  CASE state = "Delimiter" ->
                    (IF c = "'" THEN ShellWords(r, "SingleQuoted", word, words)
                     ELSE IF c = "\"" THEN ShellWords(r, "DoubleQuoted", word, words)
                     ELSE IF c = "\\" THEN ShellWords(r, "Backslash", word, words)
                     ELSE IF c = " " THEN ShellWords(r, "Delimiter", word, words)
                     ELSE IF c = "#" THEN ShellWords(r, "Comment", word, words)
                     ELSE ShellWords(r, "Unquoted", Append(word, c), words))
               [] state \in {"Backslash", "UnquotedBackslash"} ->
                    ShellWords(r, "Unquoted", Append(word, c), words)
               [] state = "Unquoted" ->
                    (IF c = "'" THEN ShellWords(r, "SingleQuoted", word, words)
                     ELSE IF c = "\"" THEN ShellWords(r, "DoubleQuoted", word, words)
                     ELSE IF c = "\\" THEN ShellWords(r, "UnquotedBackslash", word, words)
                     ELSE IF c = " " THEN ShellWords(r, "Delimiter", <<>>, Append(words, word))
                     ELSE ShellWords(r, "Unquoted", Append(word, c), words))
               [] state = "SingleQuoted" ->
                    (IF c = "'" THEN ShellWords(r, "Unquoted", word, words)
                     ELSE ShellWords(r, "SingleQuoted", Append(word, c), words))
               [] state = "DoubleQuoted" ->
                    (IF c = "\"" THEN ShellWords(r, "Unquoted", word, words)
                     ELSE IF c = "\\" THEN ShellWords(r, "DoubleQuotedBackslash", word, words)
                     ELSE ShellWords(r, "DoubleQuoted", Append(word, c), words))
               [] state = "DoubleQuotedBackslash" ->
                    (IF c \in {"$", "U+60", "\"", "\\"}
                     THEN ShellWords(r, "DoubleQuoted", Append(word, c), words)
                     ELSE ShellWords(r, "DoubleQuoted", Append(Append(word, "\\"), c), words))
               [] OTHER -> ShellWords(r, "Comment", word, words)

\* shell_words::split(..).unwrap_or_default(): the words, none when the
\* command does not parse.
shell_words_split(s) ==
    CHOOSE words \in { IF ShellWords(str, "Delimiter", <<>>, <<>>).ok
                       THEN ShellWords(str, "Delimiter", <<>>, <<>>).words
                       ELSE <<>> : str \in {s} } : TRUE

\* exec.split_whitespace().filter(|s| !s.starts_with('%')).join(" ")
\* (lines 269-274)
clean_exec(exec) ==
    JoinWith(SelectSeq(split_whitespace(exec), LAMBDA tok : ~StartsWith(tok, "%")), " ")

\* `self.db.increment_usage(..)?`: the operation goes on after a store call
\* only when the call succeeded.
GoesOnIfOk(ok) == ok

\* `let _ = self.db.increment_usage(..)` (line 259): the operation goes on
\* whatever the outcome of the store call.
GoesOn(ok) == TRUE

\* launch_selection (lines 250-301); the usage upsert may fail, which is
\* ignored.
launch_selection ==

    IF result_count = 0 THEN NoChange
    ELSE /\ AppFrame
         /\ IF selected_index >= result_count
            THEN Panic /\ UNCHANGED cursor_pos
            ELSE IF mode = "Apps"
            THEN LET app == SelectedApp
                 IN  /\ UsageOf(db, app.name) < MaxUsage
                     /\ \E ok \in BOOLEAN :
                          LET store == IF ok THEN increment_usage(db, app.name, now)
                                       ELSE db
                              is_tui == IF has_entry(store, app.name)
                                        THEN is_tui_app(store, app.name)
                                        ELSE app.is_cli_only
                              args_owned == shell_words_split(clean_exec(app.exec))
                          IN  /\ db' = store
                              /\ IF ~GoesOn(ok) \/ args_owned = <<>>
                                 THEN UNCHANGED <<launch_command, should_launch>>
                                 ELSE /\ launch_command' =
                                           [some    |-> TRUE,
                                            program |-> args_owned[1],
                                            args    |-> Tail(args_owned),
                                            is_tui  |-> is_tui]
                                      /\ should_launch' = TRUE
                     /\ UNCHANGED <<input, input_mode, cursor_pos, mode, selected_index,
                                    show_dormant, filtered_apps, filtered_files,
                                    should_quit, pc>>
            ELSE /\ launch_command' =
                      [some    |-> TRUE,
                       program |-> <<"k", "i", "t", "t", "y">>,
                       args    |-> << <<"-", "e">>, <<"n", "v", "i", "m">>,
                                      filtered_files[selected_index + 1] >>,
                       is_tui  |-> FALSE]
                 /\ should_launch' = TRUE
                 /\ UNCHANGED <<input, input_mode, cursor_pos, mode, selected_index,
                                show_dormant, filtered_apps, filtered_files,
                                should_quit, db, pc>>

--------------------------------------------------------------------------
(* InputHandler: input.rs.  A key event is [code, ch, ctrl]: ch is the
   character of a Char key and ctrl whether CONTROL is among the modifiers. *)

Key(code, ctrl) == [code |-> code, ch |-> "", ctrl |-> ctrl]
CharKey(c, ctrl) == [code |-> "Char", ch |-> c, ctrl |-> ctrl]

\* A match arm "KeyCode::X | KeyCode::Char(c) if CONTROL": the guard covers
\* both alternatives.
CtrlArm(key, code, c) ==
    /\ key.ctrl
    /\ key.code = code \/ (key.code = "Char" /\ key.ch = c)

\* process_insert_mode (lines 34-91): the first arm that matches runs.
process_insert_mode(key) ==
    IF key.code = "Esc" THEN enter_normal_mode
    ELSE IF CtrlArm(key, "Down", "n") THEN next
    ELSE IF CtrlArm(key, "Up", "p") THEN previous
    ELSE IF CtrlArm(key, "Left", "b") THEN move_cursor_left
    ELSE IF CtrlArm(key, "Right", "f") THEN move_cursor_right
    ELSE IF CtrlArm(key, "Home", "a") THEN move_cursor_start
    ELSE IF CtrlArm(key, "End", "e") THEN move_cursor_end
    ELSE IF key.code = "Enter" THEN launch_selection
    ELSE IF key.code = "Tab" THEN toggle_mode
    ELSE IF key.code = "Char" /\ key.ch = "t" /\ key.ctrl THEN toggle_tui_preference
    ELSE IF key.code = "Char" /\ key.ch = "h" /\ key.ctrl THEN toggle_dormant
    ELSE IF key.code = "Char" /\ key.ch = "u" /\ key.ctrl THEN clear_input
    ELSE IF key.code = "Char" THEN insert_char(key.ch)
    ELSE IF key.code = "Backspace" THEN backspace
    ELSE IF key.code = "Delete" THEN delete_char
    ELSE NoChange

\* process_normal_mode (lines 93-138)
process_normal_mode(key) ==
    IF key.code = "Char" /\ key.ch \in {"i", "a"} THEN enter_insert_mode
    ELSE IF key.code = "Char" /\ key.ch = "q" THEN quit
    ELSE IF key.code = "Esc" THEN quit
    ELSE IF (key.code = "Char" /\ key.ch = "j") \/ key.code = "Down" THEN next
    ELSE IF (key.code = "Char" /\ key.ch = "k") \/ key.code = "Up" THEN previous
    ELSE IF key.code = "Char" /\ key.ch = "g" THEN go_top
    ELSE IF key.code = "Char" /\ key.ch = "G" THEN go_bottom
    ELSE IF key.code = "Enter" THEN launch_selection
    ELSE IF key.code = "Tab" THEN toggle_mode
    ELSE IF key.code = "Char" /\ key.ch = "t" /\ key.ctrl THEN toggle_tui_preference
    ELSE IF key.code = "Char" /\ key.ch \in {"h", "H"} THEN toggle_dormant
    ELSE NoChange

\* process (lines 27-32)
process(key) ==
    IF input_mode = "Insert" THEN process_insert_mode(key)
    ELSE process_normal_mode(key)

--------------------------------------------------------------------------
(* main: main.rs lines 41-75, the launcher started without a flag *)

\* spawn_detached (lines 77-105): the command handed to the operating system.
spawn_detached(program, args, is_tui) ==
    IF is_tui
    THEN [program |-> <<"k", "i", "t", "t", "y">>,
          args    |-> << <<"-", "e">>, program >> \o args]
    ELSE [program |-> program, args |-> args]

\* App::new (app.rs lines 49-71) for the list scan_apps returned.
AppNew(apps) ==
    /\ input = <<>> /\ input_mode = "Insert" /\ cursor_pos = 0
    /\ mode = "Apps" /\ selected_index = 0 /\ show_dormant = FALSE
    /\ all_apps = apps
    /\ filtered_apps = apps
    /\ filtered_files = <<>>
    /\ should_quit = FALSE /\ should_launch = FALSE /\ launch_command = NoCommand

--------------------------------------------------------------------------
(* Spec: one interactive session, from App::new to the end of the loop *)

NameAB == <<"a", "b">>

\* A command with a field code and a quoted one: /d/c %a "%b"
ExecFieldCodes == <<"/", "d", "/", "c", " ", "%", "a", " ", "\"", "%", "b", "\"">>

\* The sources of the sessions: two desktop entries, the second with a
\* command of a field code only, and one PATH executable.
SessionDesktop ==
    DesktopLayout(<< DesktopFile(<<NameAB>>, <<ExecFieldCodes>>, <<>>),
                     DesktopFile(<<NameB>>, << <<"%", "a">> >>, <<>>) >>, 1)

SessionPath == PathOf(PathLayout(<<Binary(NameA, 493)>>))

\* The store and cache the sessions start from: "ab" last launched thirty
\* days and a second ago, with a cache written when the store was empty; "a"
\* seeded and "b" marked for the terminal, without a cache.
SessionEnvs ==
    { [db    |-> (NameAB :> [is_tui |-> FALSE, score |-> 0, usage |-> 1,
                             last_used |-> NowBase - thirty_days - 1]),
       cache |-> cache_json(scan_apps_fresh(<<>>, SessionDesktop, SessionPath, NowBase))],
      [db    |-> (NameA :> [is_tui |-> FALSE, score |-> 50, usage |-> 0, last_used |-> 0])
                   @@ (NameB :> [is_tui |-> TRUE, score |-> 0, usage |-> 1,
                                 last_used |-> NowBase - 10]),
       cache |-> CacheMissing] }

\* The walk of the home directory: a directory, two files, an entry the
\* walker fails on, a third file.
SessionTree ==
    << [ok |-> TRUE,  is_file |-> FALSE, path |-> <<"/", "h", "/", "a">>],
       [ok |-> TRUE,  is_file |-> TRUE,  path |-> <<"/", "h", "/", "a", "/", "b">>],
       [ok |-> TRUE,  is_file |-> TRUE,  path |-> <<"/", "h", "/", "A">>],
       [ok |-> FALSE, is_file |-> TRUE,  path |-> <<"/", "h", "/", "a", "a">>],
       [ok |-> TRUE,  is_file |-> TRUE,  path |-> <<"/", "h", "/", "c">>] >>

\* The characters typed into the input.
TypedChars == {"a", "U+E9"}

\* The keys pressed in the sessions.  In Insert mode a Char key that no
\* earlier arm takes is typed into the input, so the Char keys pressed there
\* are the typed characters and the CONTROL chords.
KeyCodes == {"Esc", "Down", "Up", "Left", "Right", "Home", "End", "Enter", "Tab",
             "Backspace", "Delete", "F1"}

ArrowCodes == {"Down", "Up", "Left", "Right", "Home", "End"}

InsertKeys ==
    {Key(code, FALSE) : code \in KeyCodes}
    \cup {Key(code, TRUE) : code \in ArrowCodes}
    \cup {CharKey(c, TRUE) : c \in {"n", "p", "b", "f", "a", "e", "t", "h", "u"}}
    \cup {CharKey(c, FALSE) : c \in TypedChars}

NormalKeys ==
    {Key(code, FALSE) : code \in KeyCodes}
    \cup {CharKey(c, FALSE) : c \in {"i", "a", "q", "j", "k", "g", "G", "h", "H", "t", "x"}}
    \cup {CharKey(c, TRUE) : c \in {"t", "h"}}

\* The state main holds when it enters the loop: the store as found, the
\* cache as scan_apps leaves it, the App as App::new builds it.
Init ==
    /\ now = NowBase
    /\ desktop = SessionDesktop
    /\ path = SessionPath
    /\ \E env \in SessionEnvs :
          LET apps == scan_apps(env.db, env.cache, desktop, path, now)
          IN  /\ db = env.db
              /\ cache = IF CacheHit(env.cache) THEN env.cache ELSE cache_json(apps)
              /\ AppNew(apps)
    /\ tree = SessionTree /\ walk = NoWalk
    /\ spawned = <<>>
    /\ pc = "loop"
    /\ lastOp = NoOp
    /\ IdleScan /\ IdleRank

\* One turn of the loop that reads a key (lines 66-69).
KeyEvent ==
    /\ pc = "loop"
    /\ ~should_quit
    /\ ~(should_launch /\ launch_command.some)
    /\ \E key \in (IF input_mode = "Insert" THEN InsertKeys ELSE NormalKeys) :
          process(key)

\* The turn that finds should_quit (lines 54-56).
LoopQuit ==
    /\ pc = "loop"
    /\ should_quit
    /\ pc' = "quit"
    /\ UNCHANGED <<envVars, scanVars, rankVars, lastOp, appVars, spawned, fileVars>>

\* A loop without the `break`: it goes on reading keys after the spawn.
GoesOnAfterSpawn == "loop"

\* `break` after spawn_detached (line 62): the loop is left.
AfterSpawn == "launched"

\* The turn that finds a launch intent (lines 58-64): the command is taken
\* out of the App; disable_raw_mode()? returns from main on an error, else
\* the process is spawned and the loop is left.
LoopLaunch ==
    /\ pc = "loop"
    /\ ~should_quit
    /\ should_launch /\ launch_command.some
    /\ launch_command' = NoCommand
    /\ \E raw_ok \in BOOLEAN :
          IF raw_ok
          THEN /\ spawned' = Append(spawned, spawn_detached(launch_command.program,
                                                            launch_command.args,
                                                            launch_command.is_tui))
               /\ pc' = AfterSpawn
          ELSE /\ spawned' = spawned
               /\ pc' = "error"
    /\ UNCHANGED <<envVars, scanVars, rankVars, lastOp, fileVars,
                   input, input_mode, cursor_pos, mode, selected_index, show_dormant,
                   all_apps, filtered_apps, filtered_files, should_quit, should_launch>>

Next == KeyEvent \/ LoopQuit \/ LoopLaunch

Spec == Init /\ [][Next]_vars

--------------------------------------------------------------------------
(* The displayed list of the Apps mode *)

\* The entities of apps that are not dormant, in their order.
NonDormant(apps) == SelectSeq(apps, LAMBDA app : ~app.is_dormant)

\* apps is in the enumeration order: total_score descending, name ascending.
SortedByScoreThenName(apps) ==
    \A k \in 1..(Len(apps) - 1) : ~AppBefore(apps[k + 1], apps[k])

\* C5: in every state of a session with mode Apps and an empty input, the
\* first state included, filtered_apps is all_apps with the dormant entities
\* left out unless show_dormant is set, in the order of total_score descending
\* and name ascending.  The first state of a session whose store holds a
\* dormant entity violates it: App::new displays every entity.
C5_EmptyInputShowsFilteredAllApps ==
    (mode = "Apps" /\ input = <<>>) =>
        /\ filtered_apps = (IF show_dormant THEN all_apps ELSE NonDormant(all_apps))
        /\ SortedByScoreThenName(filtered_apps)

\* C9: for the input and app list of a state, the list displayed with
\* show_dormant unset is the list displayed with show_dormant set, with the
\* dormant entities deleted.  The first state of a session whose store holds
\* a dormant entity violates it (C5).
C9_HiddenListIsShownListWithoutDormant ==
    (mode = "Apps" /\ ~show_dormant) =>
        filtered_apps = NonDormant(DisplayedApps(input, all_apps, TRUE))

\* C18: in every launch intent of an app, neither the program nor an
\* argument begins with '%'.  A field code written in quotes violates it:
\* the token "%b", quotes included, does not begin with '%' and is kept, and
\* the shell-word split then takes the quotes off.
C18_NoFieldCodeInLaunchIntent ==
    (launch_command.some /\ mode = "Apps") =>
        /\ ~StartsWith(launch_command.program, "%")
        /\ \A i \in 1..Len(launch_command.args) :
              ~StartsWith(launch_command.args[i], "%")

\* The calls of FileSearcher::search on their own together with the
\* sessions, whose update_search is the caller of search in the program.
SpecFileSearches == (InitFiles \/ Init) /\ [][NextFiles \/ Next]_vars

\* C19: search with an empty query returns the empty list and never builds
\* the walker nor takes an entry from it, whatever the tree holds; and in
\* every state of a session in Files mode with an empty input the file list
\* is empty.
C19_EmptyQueryEmptyFileList ==
    /\ (walk.phase = "returned" /\ walk.query = <<>>) =>
          walk.result = <<>> /\ ~walk.built /\ walk.pos = 0
    /\ \A l \in 0..MaxLimit : file_search(tree, <<>>, l) = <<>>
    /\ (pc # "none" /\ mode = "Files" /\ input = <<>>) => filtered_files = <<>>

\* A session in Files mode and Normal input mode whose input is empty.
C19_Witness ==
    /\ pc = "loop" /\ mode = "Files" /\ input_mode = "Normal"
    /\ input = <<>> /\ filtered_files = <<>>

\* C23: where an app is selected, a set_tui upsert that fails leaves the
\* store and the session as they are, and toggle_tui_preference changes
\* nothing but the store; a usage upsert that fails leaves the store as it
\* is and launch_selection still produces the launch intent, as it does on
\* every outcome of the upsert; the loop goes on in both cases.
C23_FailedUpsertIsSwallowed ==
    (pc = "loop" /\ mode = "Apps" /\ filtered_apps # <<>>
       /\ selected_index < Len(filtered_apps)) =>
        LET app == filtered_apps[selected_index + 1]
        IN  /\ ENABLED (toggle_tui_preference /\ db' = db)
            /\ ~ENABLED (toggle_tui_preference
                           /\ db' # db
                           /\ db' # set_tui_mode(db, app.name, ~is_tui_app(db, app.name)))
            /\ ~ENABLED (toggle_tui_preference /\ (pc' # "loop" \/ appVars' # appVars))
            /\ (UsageOf(db, app.name) < MaxUsage
                  /\ shell_words_split(clean_exec(app.exec)) # <<>>) =>
                 /\ ENABLED (launch_selection /\ db' = db
                               /\ should_launch' /\ launch_command'.some)
                 /\ ~ENABLED (launch_selection
                                /\ ~(should_launch' /\ launch_command'.some /\ pc' = "loop"))
                 /\ ~ENABLED (launch_selection
                                /\ db' # db
                                /\ db' # increment_usage(db, app.name, now))

\* A launch intent for the app ab, which has no row in the store: its usage
\* upsert failed.
C23_Witness ==
    /\ should_launch /\ launch_command.some /\ mode = "Apps"
    /\ launch_command.program = <<"/", "d", "/", "c">>
    /\ NameAB \notin DOMAIN db

\* C25: a step of a session that changes the store is taken in Apps mode
\* with an entity selected; it is the usage upsert of launch_selection or the
\* flag upsert of toggle_tui_preference on the selected entity's name, every
\* other row is as before, and the input, the cursor, the modes, the
\* selection and the lists are as before.  Every other step, a launch in
\* Files mode among them, leaves the store as it is.
C25_OnlyLaunchAndToggleWriteStore ==
    [][db' # db =>
         /\ pc = "loop" /\ mode = "Apps" /\ filtered_apps # <<>>
         /\ selected_index < Len(filtered_apps)
         /\ LET n == filtered_apps[selected_index + 1].name
            IN  /\ \/ /\ db' = increment_usage(db, n, now)
                      /\ UNCHANGED <<should_quit>>
                   \/ /\ db' = set_tui_mode(db, n, ~is_tui_app(db, n))
                      /\ UNCHANGED <<should_launch, launch_command, should_quit>>
                /\ \A m \in (DOMAIN db \cup DOMAIN db') \ {n} :
                      m \in DOMAIN db /\ m \in DOMAIN db' /\ db'[m] = db[m]
         /\ UNCHANGED <<input, input_mode, cursor_pos, mode, selected_index,
                        show_dormant, all_apps, filtered_apps, filtered_files>>]_vars

\* A launch in Files mode after the flag of ab was set in Apps mode with the
\* second entity selected: ab has its flag and no launch is counted.
C25_Witness ==
    /\ mode = "Files" /\ should_launch /\ launch_command.some
    /\ NameAB \in DOMAIN db /\ db[NameAB].is_tui /\ db[NameAB].usage = 0
    /\ filtered_apps # <<>> /\ filtered_apps[1].name # NameAB

\* C26: a key event is processed in one step of the loop, which ends when
\* process has returned; after every step the list of the active mode is the
\* one of the current input: in Apps mode the ranking of the input over all
\* apps (all apps for the empty input) under the dormancy filter, or the
\* list App::new starts with while the input is still empty; in Files mode
\* the file search of the input.
C26_ListIsOfCurrentInput ==
    pc # "none" =>
        /\ mode = "Apps" =>
              \/ filtered_apps = DisplayedApps(input, all_apps, show_dormant)
              \/ input = <<>> /\ filtered_apps = all_apps
        /\ mode = "Files" =>
              filtered_files = IF input = <<>> THEN <<>>
                               ELSE file_search(tree, input, 50)

\* A session whose input is not empty and whose list holds some of the apps
\* and not all of them, after the other mode has been visited with the same
\* input.
C26_Witness ==
    /\ pc = "loop" /\ mode = "Apps" /\ input # <<>>
    /\ filtered_apps # <<>> /\ Len(filtered_apps) < Len(all_apps)
    /\ filtered_files # <<>>

\* C27: a session spawns at most one process.  The step that spawns is a
\* turn of the loop that finds should_launch set with a command present; it
\* hands that command to spawn_detached and leaves the loop.  From a state
\* with such an intent the only step is that turn: no field of the App but
\* the command taken out changes, the store does not change, and the loop is
\* left.
C27_OneSpawnByTheLoop ==
    [][/\ pc = "loop"
       /\ spawned' # spawned =>
            /\ should_launch /\ launch_command.some
            /\ spawned = <<>>
            /\ spawned' = <<spawn_detached(launch_command.program, launch_command.args,
                                           launch_command.is_tui)>>
            /\ pc' = "launched"
       /\ (should_launch /\ launch_command.some) =>
            /\ pc' \in {"launched", "error"}
            /\ launch_command' = NoCommand
            /\ UNCHANGED <<db, input, input_mode, cursor_pos, mode, selected_index,
                           show_dormant, all_apps, filtered_apps, filtered_files,
                           should_quit, should_launch>>]_vars

\* A session that ended with the spawn of kitty for an app with the TUI
\* flag, after the flag was set in the session.
C27_Witness ==
    /\ pc = "launched" /\ Len(spawned) = 1
    /\ spawned[1].program = <<"k", "i", "t", "t", "y">>
    /\ spawned[1].args = << <<"-", "e">>, <<"/", "d", "/", "c">>, <<"%", "b">> >>
    /\ db[NameAB].usage = 1

\* C30: in every state of a session selected_index is 0 when the list of
\* the active mode is empty and below its length otherwise, so that
\* filtered_apps[selected_index] and filtered_files[selected_index] exist
\* where launch_selection and toggle_tui_preference read them; and a step
\* that changes the input, the mode, the dormancy switch or a list leaves
\* selected_index at 0.
C30_SelectedIndexInRange ==
    /\ [](pc # "none" =>
            IF result_count = 0 THEN selected_index = 0
            ELSE selected_index < result_count)
    /\ [][(\/ input' # input \/ mode' # mode \/ show_dormant' # show_dormant
           \/ filtered_apps' # filtered_apps \/ filtered_files' # filtered_files) =>
             selected_index' = 0]_vars

\* A launch of the last of several files, at an index that is past the end
\* of the list of apps.
C30_Witness ==
    /\ mode = "Files" /\ should_launch /\ launch_command.some
    /\ Len(filtered_files) >= 2 /\ selected_index = Len(filtered_files) - 1
    /\ Len(filtered_apps) < Len(filtered_files)

--------------------------------------------------------------------------
(* The cursor of the input line *)

\* C31: in every state of a session cursor_pos is at most the byte length
\* of input and on a character boundary of input, and no operation has
\* aborted.  A character of two bytes violates it: insert_char advances
\* the cursor by one, into the middle of the character, and the insert or
\* delete that follows aborts.
C31_CursorOnCharBoundary ==
    /\ cursor_pos <= ByteLen(input)
    /\ IsCharBoundary(input, cursor_pos)
    /\ pc # "panicked"

--------------------------------------------------------------------------
(* Usage counting and the launch intent *)

\* C32: a step of a session that raises the usage of an entity in the store
\* also leaves a launch intent: a launch attempt that ends without an
\* intent leaves the store as it was.  (The other direction, an intent
\* without a count, is what a failed store write gives.)  An entity whose
\* command is a field code only violates it: the count is written before
\* the command is found to be empty.
C32_UsageGrowsOnlyWithIntent ==
    [][(\E n \in DOMAIN db' : UsageOf(db', n) > UsageOf(db, n)) =>
          (should_launch' /\ launch_command'.some)]_vars

--------------------------------------------------------------------------
(* The TUI status of an entity: ui.rs lines 58-75 *)

\* The status refresh_tui_cache stores for an entity of the displayed list
\* and get_tui_status hands to the drawing code: the stored flag when the
\* store has a row of the name, the entity's is_cli_only otherwise.
get_tui_status(store, app_entry) ==
    IF has_entry(store, app_entry.name) THEN is_tui_app(store, app_entry.name)
    ELSE app_entry.is_cli_only

\* C33: a step of a session that leaves a launch intent of an app gives it
\* the TUI status the entity was drawn with before the step.  An executable
\* of PATH without a row violates it: the usage count written first creates
\* the row, with the flag off, and the intent takes the flag of that row
\* instead of is_cli_only.
C33_IntentHasTheRenderedStatus ==
    [][(mode = "Apps" /\ ~launch_command.some /\ launch_command'.some) =>
          launch_command'.is_tui = get_tui_status(db, SelectedApp)]_vars

\* C34: a step of a session that writes the store without counting a
\* launch, which is a toggle_tui_preference whose write succeeded, inverts
\* the TUI status the selected entity is drawn with.  An executable of PATH
\* without a row violates it: it is drawn with is_cli_only, which is on,
\* the toggle negates the stored default, which is off, and writes on.
C34_ToggleInvertsTheRenderedStatus ==
    [][(/\ mode = "Apps" /\ db' # db
        /\ \A n \in DOMAIN db' : UsageOf(db', n) = UsageOf(db, n)) =>
          get_tui_status(db', SelectedApp) = ~get_tui_status(db, SelectedApp)]_vars

--------------------------------------------------------------------------
(* The known executables of the enumeration, under SpecScan *)

\* The set known_execs holds when the PATH loop starts (line 137): the
\* basename of the command of every displayable entry.
KnownExecs == { simple_bin(LaunchCommand(DisplayableEntries[i])) :
                  i \in 1..Len(DisplayableEntries) }

\* C35: after a full enumeration, every PATH executable left out for its
\* name being a known executable is the basename of the command of a
\* desktop-sourced entity of the output.  A desktop entry whose display
\* name an earlier entry has taken violates it: it yields no entity, yet
\* the basename of its command is recorded and the executable of that name
\* is left out, with no entity that launches it.
C35_OmittedExecutableHasAnEntity ==
    FreshOutput =>
      \A j \in 1..Len(PathExecutables) :
        PathExecutables[j].name \in KnownExecs =>
          \E k \in 1..Len(scanned) :
             /\ ~scanned[k].is_cli_only
             /\ simple_bin(scanned[k].exec) = PathExecutables[j].name

--------------------------------------------------------------------------
(* SpecShown: update_search on lists around the result cap, through the
   operations of the input line that call it *)

\* The characters typed: one every name has, one some names have in this
\* case, one no name has.
ShownChars == {"a", "B", "d"}

\* The App as App::new builds it for a list scan_apps returned.
InitShown ==
    /\ \E n \in {1, ResultCap - 1, ResultCap, ResultCap + 1, ResultCap + RankExtra} :
       \E pattern \in {0, 1, 3} : \E dormancy \in BOOLEAN :
          AppNew(CandidateList(n, pattern, dormancy))
    /\ now = NowBase /\ db = <<>> /\ cache = CacheMissing
    /\ desktop = <<>> /\ path = PathUnset
    /\ tree = <<>> /\ walk = NoWalk /\ spawned = <<>> /\ pc = "loop"
    /\ IdleScan /\ IdleRank /\ lastOp = NoOp

TypeChar == \E c \in ShownChars : insert_char(c)

NextShown == TypeChar \/ backspace \/ clear_input \/ toggle_dormant

SpecShown == InitShown /\ [][NextShown]_vars

\* The entities of all_apps that are not dormant and whose name the matcher
\* scores for the input.
ShownCandidates ==
    {i \in 1..Len(all_apps) :
        ~all_apps[i].is_dormant /\ fuzzy_match(all_apps[i].name, input).some}

\* The (affinity, total_score) key of a for the input is strictly higher
\* than that of b.
InputKeyHigher(a, b) ==
    LET fa == fuzzy_match(a.name, input).score
        fb == fuzzy_match(b.name, input).score
    IN  fa > fb \/ (fa = fb /\ a.total_score > b.total_score)

\* C36: with dormant entities hidden and a non-empty input, filtered_apps
\* holds min(50, n) of the n non-dormant matching entities, in
\* non-increasing (affinity, total_score) order, and none left out has a
\* strictly higher key than one that is in.  A list with more than 50
\* matches violates it: the cap of 50 is applied to all matches, dormant
\* ones included, and the dormant ones are taken out afterwards.
C36_CapCountsShownEntitiesOnly ==
    (mode = "Apps" /\ ~show_dormant /\ input # <<>>) =>
      LET n == Cardinality(ShownCandidates)
      IN  /\ Len(filtered_apps) = (IF n < ResultCap THEN n ELSE ResultCap)
          /\ \A k \in 1..Len(filtered_apps) :
                \E i \in ShownCandidates : all_apps[i] = filtered_apps[k]
          /\ \A k \in 1..(Len(filtered_apps) - 1) :
                ~InputKeyHigher(filtered_apps[k + 1], filtered_apps[k])
          /\ \A i \in ShownCandidates :
                all_apps[i] \notin Range(filtered_apps) =>
                  \A k \in 1..Len(filtered_apps) :
                     ~InputKeyHigher(all_apps[i], filtered_apps[k])

--------------------------------------------------------------------------
(* The keys of the Insert mode *)

\* C37: in every state of a session in Insert mode, the Down key without a
\* modifier leaves the selection where next puts it and the Up key where
\* previous puts it, as in Normal mode, and a character typed without a
\* modifier at a cursor on a character boundary is in the input afterwards.
\* The arrows violate it: the guard on CONTROL of the arm
\* `KeyCode::Down | KeyCode::Char('n')` covers both alternatives, so the
\* unmodified arrow reaches the catch-all arm and the selection stays.
C37_ArrowsSelectInInsertMode ==
    (pc = "loop" /\ input_mode = "Insert" /\ result_count > 0) =>
      /\ ~ENABLED (/\ process(Key("Down", FALSE))
                   /\ selected_index' # (selected_index + 1) % result_count)
      /\ ~ENABLED (/\ process(Key("Up", FALSE))
                   /\ selected_index' # (IF selected_index = 0 THEN result_count - 1
                                         ELSE selected_index - 1))
      /\ \A c \in TypedChars :
            (IsCharBoundary(input, cursor_pos) /\ Len(input) < MaxInput) =>
               ~ENABLED (/\ process(CharKey(c, FALSE))
                         /\ input' # StringInsert(input, cursor_pos, c))

==========================================================================
